---- MODULE Spec2Model ----
(***************************************************************************)
(* Gas-law laboratory: the state coordinator of js/physics.js              *)
(* (calculateNewState and its helpers), the application store of state.js  *)
(* and the control-change handlers of js/main.js.                          *)
(*                                                                         *)
(* JavaScript numbers are modelled as exact reduced fractions              *)
(* [num, den] of naturals: every quantity the coordinator handles is       *)
(* positive, and the relative rounding error of a double (2^-53) is far    *)
(* below every tolerance the properties speak of.  Numerators and          *)
(* denominators are naturals below 2^31, which bounds how many computed    *)
(* values can be chained (MaxChanges).  The store's log, history points    *)
(* and presentation fields are not part of the modelled state.             *)
(***************************************************************************)
EXTENDS Integers, Sequences, FiniteSets, TLC

VARIABLES state, call, changes, sim, store, notifier

vars == <<state, call, changes, sim, store, notifier>>

(***************************************************************************)
(* Number arithmetic: reduced fractions of naturals.                       *)
(***************************************************************************)
\* the element of a set of one element; an operator may take a value
\* through such a set, so that the value is evaluated once
TheOne(S) == CHOOSE v \in S : TRUE

RECURSIVE GCD(_, _)
GCD(a, b) == IF b = 0 THEN a ELSE GCD(b, a % b)

Rat(a, b) ==
    LET g == GCD(a, b) IN [num |-> a \div g, den |-> b \div g]

Num(k) == [num |-> k, den |-> 1]

\* cancel the natural x against each member of ds: <<x', ds'>>
RECURSIVE CancelOne(_, _)
CancelOne(x, ds) ==
    IF ds = <<>> THEN <<x, <<>>>>
    ELSE LET g == GCD(x, Head(ds))
             r == CancelOne(x \div g, Tail(ds))
         IN  <<r[1], <<Head(ds) \div g>> \o r[2]>>

\* cancel every member of ns against ds: <<product of what is left of ns, ds'>>
RECURSIVE CancelAll(_, _)
CancelAll(ns, ds) ==
    IF ns = <<>> THEN <<1, ds>>
    ELSE LET c == CancelOne(Head(ns), ds)
             r == CancelAll(Tail(ns), c[2])
         IN  <<c[1] * r[1], r[2]>>

RECURSIVE Product(_)
Product(ds) == IF ds = <<>> THEN 1 ELSE Head(ds) * Product(Tail(ds))

\* (top[1] * top[2] * ...) / (bottom[1] * bottom[2] * ...), the common
\* factors cancelled before anything is multiplied: the reduced quotient of
\* the two products, whatever the order the factors are applied in
Frac(top, bottom) ==
    LET ns == [i \in 1..Len(top) |-> top[i].num]
                \o [i \in 1..Len(bottom) |-> bottom[i].den]
        ds == [i \in 1..Len(top) |-> top[i].den]
                \o [i \in 1..Len(bottom) |-> bottom[i].num]
        c == CancelAll(ns, ds)
    IN  [num |-> c[1], den |-> Product(c[2])]

\* the sign of a/b - c/d, by comparing the continued fractions (no product
\* is ever formed)
RECURSIVE CmpFrac(_, _, _, _)
CmpFrac(a, b, c, d) ==
    LET qa == a \div b
        qc == c \div d
        ra == a % b
        rc == c % d
    IN  IF qa # qc THEN (IF qa < qc THEN -1 ELSE 1)
        ELSE IF ra = 0 /\ rc = 0 THEN 0
        ELSE IF ra = 0 THEN -1
        ELSE IF rc = 0 THEN 1
        ELSE CmpFrac(d, rc, b, ra)

RLeq(a, b) == CmpFrac(a.num, a.den, b.num, b.den) <= 0
RGeq(a, b) == CmpFrac(a.num, a.den, b.num, b.den) >= 0
RLt(a, b) == CmpFrac(a.num, a.den, b.num, b.den) < 0
RGt(a, b) == CmpFrac(a.num, a.den, b.num, b.den) > 0

\* Math.max, Math.min
MathMax(a, b) == IF RGeq(a, b) THEN a ELSE b
MathMin(a, b) == IF RLeq(a, b) THEN a ELSE b

(***************************************************************************)
(* physics.js: constants and the bounds table.                             *)
(***************************************************************************)
\* const R = 8.314
R == Rat(8314, 1000)

BOUNDS ==
    [P |-> [min |-> Num(50), max |-> Num(200)],
     V |-> [min |-> Num(10), max |-> Num(50)],
     T |-> [min |-> Num(200), max |-> Num(400)],
     n |-> [min |-> Rat(5, 10), max |-> Num(3)]]

Undefined == "undefined"
Null == "null"

\* BOUNDS[variable] || { min: 0, max: 100 }
getBounds(variable) ==
    IF variable \in DOMAIN BOUNDS
    THEN BOUNDS[variable]
    ELSE [min |-> Num(0), max |-> Num(100)]

\* a clamp that lets the value through
clampNothing(value, min, max) == value

\* a clamp with its two limits exchanged
clampSwapped(value, min, max) == MathMax(max, MathMin(min, value))

clamp(value, min, max) == MathMax(min, MathMin(max, value))

isValueValid(variable, value) ==
    LET bounds == getBounds(variable)
    IN  RGeq(value, bounds.min) /\ RLeq(value, bounds.max)

\* a validity check that forgets the volume
isStateValidNoV(s) ==
    /\ RGeq(s.P, BOUNDS.P.min) /\ RLeq(s.P, BOUNDS.P.max)
    /\ RGeq(s.T, BOUNDS.T.min) /\ RLeq(s.T, BOUNDS.T.max)
    /\ RGeq(s.n, BOUNDS.n.min) /\ RLeq(s.n, BOUNDS.n.max)

isStateValid(s) ==
    /\ RGeq(s.P, BOUNDS.P.min) /\ RLeq(s.P, BOUNDS.P.max)
    /\ RGeq(s.V, BOUNDS.V.min) /\ RLeq(s.V, BOUNDS.V.max)
    /\ RGeq(s.T, BOUNDS.T.min) /\ RLeq(s.T, BOUNDS.T.max)
    /\ RGeq(s.n, BOUNDS.n.min) /\ RLeq(s.n, BOUNDS.n.max)

(***************************************************************************)
(* physics.js: the state coordinator.  A result is the returned object:    *)
(* keys are the properties its literal sets, and a property outside keys   *)
(* reads as undefined (the record then holds a placeholder for it).  A     *)
(* reason or notification is the sequence of the parts of its message.     *)
(***************************************************************************)
NoState == [P |-> Num(0), V |-> Num(0), T |-> Num(0), n |-> Num(0)]

\* { success: true, newState: ... }
Success(newState) ==
    [keys |-> {"success", "newState"}, success |-> TRUE,
     newState |-> newState, reason |-> <<>>, notification |-> <<>>]

\* { success: false, reason: ... }
Failure(reason) ==
    [keys |-> {"success", "reason"}, success |-> FALSE,
     newState |-> NoState, reason |-> reason, notification |-> <<>>]

\* a switch whose isothermal case recomputes the volume
DirectDependentTtoV(lockedVariable) ==
    CASE lockedVariable = "P" -> "V"
      [] lockedVariable = "V" -> "P"
      [] lockedVariable = "T" -> "V"
      [] lockedVariable = Null -> "P"
      [] OTHER -> Undefined

\* the switch of calculateWithDirectMolesChange: the variable it recomputes
\* (none when no case matches)
DirectDependent(lockedVariable) ==
    CASE lockedVariable = "P" -> "V"
      [] lockedVariable = "V" -> "P"
      [] lockedVariable = "T" -> "P"
      [] lockedVariable = Null -> "P"
      [] OTHER -> Undefined

calculateWithDirectMolesChange(globalState, changeInfo) ==
    LET P == globalState.P
        V == globalState.V
        T == globalState.T
        lockedVariable == globalState.lockedVariable
        newN == changeInfo.value
        \* (newN * R * T) / (P * 1000) * 1000
        newV == IF DirectDependent(lockedVariable) = "V"
                THEN Frac(<<newN, R, T, Num(1000)>>, <<P, Num(1000)>>)
                ELSE V
        \* (newN * R * T) / (V / 1000) / 1000
        newP == IF DirectDependent(lockedVariable) = "P"
                THEN Frac(<<newN, R, T, Num(1000)>>, <<V, Num(1000)>>)
                ELSE P
        proposedState == [P |-> newP, V |-> newV, T |-> T, n |-> newN]
    IN  IF isStateValid(proposedState)
        THEN Success(proposedState)
        ELSE Failure(<<"moles change drives other variables out of bounds">>)

\* a switch whose unlocked temperature change holds P and recomputes V
DependentVariableNoLockT(lockedVariable, variable) ==
    CASE lockedVariable = "P" /\ variable = "T" -> "V"
      [] lockedVariable = "P" /\ variable = "V" -> "T"
      [] lockedVariable = "V" /\ variable = "T" -> "P"
      [] lockedVariable = "V" /\ variable = "P" -> "T"
      [] lockedVariable = "T" /\ variable = "V" -> "P"
      [] lockedVariable = "T" /\ variable = "P" -> "V"
      [] lockedVariable = Null /\ variable = "P" -> "T"
      [] lockedVariable = Null /\ variable = "V" -> "P"
      [] lockedVariable = Null /\ variable = "T" -> "V"
      [] OTHER -> Undefined

\* a switch whose isochoric temperature change recomputes the locked volume
DependentVariableLocked(lockedVariable, variable) ==
    CASE lockedVariable = "P" /\ variable = "T" -> "V"
      [] lockedVariable = "P" /\ variable = "V" -> "T"
      [] lockedVariable = "V" /\ variable = "T" -> "V"
      [] lockedVariable = "V" /\ variable = "P" -> "T"
      [] lockedVariable = "T" /\ variable = "V" -> "P"
      [] lockedVariable = "T" /\ variable = "P" -> "V"
      [] lockedVariable = Null /\ variable = "P" -> "T"
      [] lockedVariable = Null /\ variable = "V" -> "P"
      [] lockedVariable = Null /\ variable = "T" -> "P"
      [] OTHER -> Undefined

\* the lock / changed-variable switch of calculateWithMolesAsCoordinator:
\* the dependent variable (undefined when no branch assigns it)
DependentVariable(lockedVariable, variable) ==
    CASE lockedVariable = "P" /\ variable = "T" -> "V"
      [] lockedVariable = "P" /\ variable = "V" -> "T"
      [] lockedVariable = "V" /\ variable = "T" -> "P"
      [] lockedVariable = "V" /\ variable = "P" -> "T"
      [] lockedVariable = "T" /\ variable = "V" -> "P"
      [] lockedVariable = "T" /\ variable = "P" -> "V"
      [] lockedVariable = Null /\ variable = "P" -> "T"
      [] lockedVariable = Null /\ variable = "V" -> "P"
      [] lockedVariable = Null /\ variable = "T" -> "P"
      [] OTHER -> Undefined

\* theoretical values whose volume stays in cubic metres (the final
\* conversion to litres is missing)
TheoreticalValueCubicMetres(globalState, changeInfo) ==
    LET n == globalState.n
        newP == IF changeInfo.variable = "P" THEN changeInfo.value
                ELSE globalState.P
        newV == IF changeInfo.variable = "V" THEN changeInfo.value
                ELSE globalState.V
        newT == IF changeInfo.variable = "T" THEN changeInfo.value
                ELSE globalState.T
        dependentVariable ==
            DependentVariable(globalState.lockedVariable, changeInfo.variable)
    IN  CASE dependentVariable = "V" ->
               Frac(<<n, R, newT>>, <<newP, Num(1000)>>)
          [] dependentVariable = "T" ->
               Frac(<<newP, Num(1000), newV>>, <<n, R>>)
          [] dependentVariable = "P" ->
               Frac(<<n, R, newT>>, <<newV>>)
          [] OTHER -> Undefined

\* the same switch: the dependent variable's theoretical value, from the
\* state with the change applied and the unchanged n
TheoreticalValue(globalState, changeInfo) ==
    LET n == globalState.n
        newP == IF changeInfo.variable = "P" THEN changeInfo.value
                ELSE globalState.P
        newV == IF changeInfo.variable = "V" THEN changeInfo.value
                ELSE globalState.V
        newT == IF changeInfo.variable = "T" THEN changeInfo.value
                ELSE globalState.T
        dependentVariable ==
            DependentVariable(globalState.lockedVariable, changeInfo.variable)
    IN  CASE dependentVariable = "V" ->
               \* (n * R * T) / (P * 1000) * 1000
               Frac(<<n, R, newT, Num(1000)>>, <<newP, Num(1000)>>)
          [] dependentVariable = "T" ->
               \* (P * 1000 * V / 1000) / (n * R)
               Frac(<<newP, Num(1000), newV>>, <<Num(1000), n, R>>)
          [] dependentVariable = "P" ->
               \* (n * R * T) / (V / 1000) / 1000
               Frac(<<n, R, newT, Num(1000)>>, <<newV, Num(1000)>>)
          [] OTHER -> Undefined

calculateWithMolesAsCoordinator(globalState, changeInfo) ==
    LET P0 == IF changeInfo.variable = "P" THEN changeInfo.value
              ELSE globalState.P
        V0 == IF changeInfo.variable = "V" THEN changeInfo.value
              ELSE globalState.V
        T0 == IF changeInfo.variable = "T" THEN changeInfo.value
              ELSE globalState.T
        dependentVariable ==
            DependentVariable(globalState.lockedVariable, changeInfo.variable)
        theoreticalValue == TheoreticalValue(globalState, changeInfo)
    IN  IF dependentVariable = Undefined
        THEN Failure(<<"unknown calculation error">>)
        ELSE IF isValueValid(dependentVariable, theoreticalValue)
        THEN Success([P |-> IF dependentVariable = "P" THEN theoreticalValue
                            ELSE P0,
                      V |-> IF dependentVariable = "V" THEN theoreticalValue
                            ELSE V0,
                      T |-> IF dependentVariable = "T" THEN theoreticalValue
                            ELSE T0,
                      n |-> globalState.n])
        ELSE
          LET bounds == getBounds(dependentVariable)
              clampedValue == clamp(theoreticalValue, bounds.min, bounds.max)
              newP == IF dependentVariable = "P" THEN clampedValue ELSE P0
              newV == IF dependentVariable = "V" THEN clampedValue ELSE V0
              newT == IF dependentVariable = "T" THEN clampedValue ELSE T0
              \* (newP * 1000 * newV / 1000) / (R * newT)
              calculatedN ==
                  Frac(<<newP, Num(1000), newV>>, <<Num(1000), R, newT>>)
          IN  IF isValueValid("n", calculatedN)
              THEN Success([P |-> newP, V |-> newV, T |-> newT,
                            n |-> calculatedN])
              ELSE Failure(<<dependentVariable,
                             "out of bounds and moles coordination failed">>)

calculateNewState(globalState, changeInfo) ==
    IF changeInfo.variable = "n"
    THEN calculateWithDirectMolesChange(globalState, changeInfo)
    ELSE calculateWithMolesAsCoordinator(globalState, changeInfo)

(***************************************************************************)
(* state.js: the store.                                                    *)
(***************************************************************************)
InitialState ==
    [P |-> Rat(101325, 1000), V |-> Rat(224, 10), T |-> Rat(27315, 100),
     n |-> Num(1), gasType |-> "CO2", a |-> Rat(3643, 10),
     b |-> Rat(427, 10000), lockedVariable |-> "P"]

\* calculatePhysics, which handleStateChange applies to the store on every
\* stateShouldUpdate event: each of P, V, T, n is brought into its bounds
calculatePhysics(s) ==
    [s EXCEPT !.P = clamp(s.P, BOUNDS.P.min, BOUNDS.P.max),
              !.V = clamp(s.V, BOUNDS.V.min, BOUNDS.V.max),
              !.T = clamp(s.T, BOUNDS.T.min, BOUNDS.T.max),
              !.n = clamp(s.n, BOUNDS.n.min, BOUNDS.n.max)]

\* updateState(updates): merge the keys of updates, then dispatch
\* stateShouldUpdate (handled synchronously by handleStateChange)
updateState(s, updates) ==
    LET merged == [k \in DOMAIN s |->
                      IF k \in DOMAIN updates THEN updates[k] ELSE s[k]]
    IN  calculatePhysics(merged)

(***************************************************************************)
(* state.js: the fields of the store that the coordinator and the arena    *)
(* do not read.  They are kept in store: the phase of the experiment, the  *)
(* step flags, the history points and the log.  A log entry is known by    *)
(* its place in the order of the addLogEntry calls, a history point by the *)
(* P, V, T, n it holds.  timers counts the setTimeout(onPhaseChange, 0)    *)
(* callbacks of flow.js that have not run yet, handled the handlers that   *)
(* have run, last the handler that ran last and its argument.              *)
(***************************************************************************)
InitialStore ==
    [experimentPhase |-> "welcome",
     currentStep |-> [feedbackSubmitted |-> FALSE, hasCorrectLock |-> FALSE,
                      hasOperatedSlider |-> FALSE],
     history |-> <<>>, log |-> <<>>, timers |-> 0, handled |-> 0,
     last |-> <<>>]

\* slice(-k) of an array
SliceLast(list, k) ==
    IF Len(list) > k THEN SubSeq(list, Len(list) - k + 1, Len(list))
    ELSE list

\* addLogEntry: push, then keep the newest 50
addLogEntry(st) ==
    TheOne({LET log == v.log
                id == IF log = <<>> THEN 1 ELSE log[Len(log)] + 1
            IN  [v EXCEPT !.log = IF Len(log) + 1 > 50
                                  THEN SliceLast(Append(log, id), 50)
                                  ELSE Append(log, id)] :
              v \in {st}})

HistoryPoint(s) == [P |-> s.P, V |-> s.V, T |-> s.T, n |-> s.n]

\* addHistoryPoint: push the store's P, V, T, n, then keep the newest 100
addHistoryPoint(st, s) ==
    TheOne({[v EXCEPT !.history =
                IF Len(v.history) + 1 > 100
                THEN SliceLast(Append(v.history, HistoryPoint(s)), 100)
                ELSE Append(v.history, HistoryPoint(s))] :
              v \in {st}})

\* initState: the first log entry and the first history point
initState(st, s) == addHistoryPoint(addLogEntry(st), s)

\* the store when the DOMContentLoaded handler has called initState
StartUp == initState(InitialStore, InitialState)

\* what updateState(updates) does to these fields, s being P, V, T, n and
\* the gas before the call: the merge (currentStep key by key), a history
\* point when the patch holds one of P, V, T, n, then the dispatch of
\* stateShouldUpdate, whose listener handleStateChange ends with a log entry
updateStore(st, s, updates) ==
    TheOne({LET merged ==
                  [k \in DOMAIN v |->
                     IF k \notin DOMAIN u THEN v[k]
                     ELSE IF k = "currentStep"
                     THEN [f \in DOMAIN v.currentStep |->
                             IF f \in DOMAIN u.currentStep
                             THEN u.currentStep[f] ELSE v.currentStep[f]]
                     ELSE u[k]]
                gas == [k \in DOMAIN s |->
                          IF k \in DOMAIN u THEN u[k] ELSE s[k]]
            IN  addLogEntry(IF {"P", "V", "T", "n"} \cap DOMAIN u # {}
                            THEN addHistoryPoint(merged, gas) ELSE merged) :
              v \in {st}, u \in {updates}})

(***************************************************************************)
(* Notifier.js: the queue of notifications.  A notification is known by    *)
(* the number of the show() call that made it.  element holds the          *)
(* notification whose text the global-notifier element carries, shown      *)
(* whether the element has the class show, timers the setTimeout callbacks *)
(* that have not run yet (the hide callback of a notification, and the     *)
(* callback that goes on to the next one), calls the number of show()      *)
(* calls, displayed the notifications put on screen, in that order.        *)
(***************************************************************************)
NotifierIdle ==
    [notificationQueue |-> <<>>, isProcessing |-> FALSE, element |-> <<>>,
     shown |-> FALSE, timers |-> {}, calls |-> 0, displayed |-> <<>>]

HideTimer(id) == [callback |-> "hide", notification |-> id]
NextTimer(id) == [callback |-> "next", notification |-> id]

\* processQueue(): nothing queued ends the processing; else the head of the
\* queue goes on screen and its hide timer is set
processQueue(nt) ==
    IF Len(nt.notificationQueue) = 0 THEN [nt EXCEPT !.isProcessing = FALSE]
    ELSE [nt EXCEPT
            !.isProcessing = TRUE,
            !.notificationQueue = Tail(@),
            !.element = <<Head(nt.notificationQueue)>>,
            !.shown = TRUE,
            !.displayed = Append(@, Head(nt.notificationQueue)),
            !.timers = @ \cup {HideTimer(Head(nt.notificationQueue))}]

\* show(message, type, duration)
show(nt) ==
    LET pushed == [nt EXCEPT !.calls = @ + 1,
                             !.notificationQueue = Append(@, nt.calls + 1)]
    IN  IF ~pushed.isProcessing THEN processQueue(pushed) ELSE pushed

\* the callback of the duration timer: hideNotification, and a timer of
\* 300 ms for the next notification
hideCallback(nt, timer) ==
    [nt EXCEPT !.shown = FALSE,
               !.timers = (@ \ {timer})
                            \cup {NextTimer(timer.notification)}]

\* the callback of the 300 ms timer: processQueue()
nextCallback(nt, timer) ==
    processQueue([nt EXCEPT !.timers = @ \ {timer}])

\* clearQueue(): the queue is emptied and the element hidden; no timer is
\* cleared
clearQueue(nt) ==
    [nt EXCEPT !.notificationQueue = <<>>, !.shown = FALSE,
               !.isProcessing = FALSE]

(***************************************************************************)
(* flow.js: the phases of the experiment.                                  *)
(***************************************************************************)
EXPERIMENT_PHASES ==
    [welcome |->
       [allowedActions |-> {"start_experiment"}, requirements |-> <<>>],
     guided_1 |->
       [allowedActions |-> {"control_change", "record_point", "next_step",
                            "skip_guide", "lock_toggle"},
        requirements |-> <<[requiredLock |-> "T", requiredSlider |-> "V"]>>],
     guided_2 |->
       [allowedActions |-> {"control_change", "record_point", "next_step",
                            "skip_guide", "lock_toggle"},
        requirements |-> <<[requiredLock |-> "V", requiredSlider |-> "T"]>>],
     guided_3 |->
       [allowedActions |-> {"control_change", "record_point", "next_step",
                            "skip_guide", "lock_toggle"},
        requirements |-> <<[requiredLock |-> "V", requiredSlider |-> "T"]>>],
     free |->
       [allowedActions |-> {"control_change", "record_point", "lock_toggle",
                            "reset"},
        requirements |-> <<>>]]

isActionAllowed(action, phase) ==
    action \in EXPERIMENT_PHASES[phase].allowedActions

getNextPhase(currentPhase) ==
    CASE currentPhase = "welcome" -> "guided_1"
      [] currentPhase = "guided_1" -> "guided_2"
      [] currentPhase = "guided_2" -> "guided_3"
      [] currentPhase = "guided_3" -> "free"
      [] OTHER -> currentPhase

\* getPhaseRequirements(phase), wanted in the guided phases
getPhaseRequirements(phase) == EXPERIMENT_PHASES[phase].requirements

startsWithGuided(phase) == phase \in {"guided_1", "guided_2", "guided_3"}

\* the store object a handler reads: every field of it
WholeState(st, s) ==
    [k \in DOMAIN s \cup {"experimentPhase", "currentStep", "history",
                          "log"} |->
       IF k \in DOMAIN s THEN s[k] ELSE st[k]]

\* the step flags advancePhase resets
FlagsOfFlow == [feedbackSubmitted |-> FALSE, hasCorrectLock |-> FALSE]

\* the phase advancePhase moves to
newPhaseOf(currentPhase, type) ==
    CASE type = "start_experiment" ->
           IF currentPhase = "welcome" THEN "guided_1" ELSE currentPhase
      [] type = "next_step" -> getNextPhase(currentPhase)
      [] type = "skip_guide" -> "free"
      [] OTHER -> currentPhase

\* advancePhase(currentState, action): the object it returns, which is the
\* store itself when the action is not allowed and the updates otherwise
advancePhase(st, s, type) ==
    TheOne({LET currentPhase == v.experimentPhase
                newPhase == newPhaseOf(currentPhase, type)
                updates ==
                  CASE type = "reset" ->
                         [P |-> Rat(101325, 1000), V |-> Rat(224, 10),
                          T |-> Rat(27315, 100), n |-> Num(1),
                          history |-> <<>>]
                    [] type = "record_point" ->
                         [history |-> Append(v.history, HistoryPoint(s))]
                    [] OTHER -> <<>>
            IN  IF ~isActionAllowed(type, currentPhase)
                THEN WholeState(v, s)
                ELSE IF newPhase # currentPhase
                THEN [k \in DOMAIN updates
                              \cup {"experimentPhase", "currentStep"} |->
                        CASE k = "experimentPhase" -> newPhase
                          [] k = "currentStep" -> FlagsOfFlow
                          [] OTHER -> updates[k]]
                ELSE updates :
              v \in {st}})

(***************************************************************************)
(* Number arithmetic with a sign, for the positions and velocities of the  *)
(* simulation: reduced fractions [num, den] with an integer numerator.     *)
(***************************************************************************)
AbsInt(k) == IF k < 0 THEN -k ELSE k

Sig(a, b) ==
    LET g == GCD(AbsInt(a), b) IN [num |-> a \div g, den |-> b \div g]

Plus(x, y) ==
    LET g == GCD(x.den, y.den)
    IN  Sig(x.num * (y.den \div g) + y.num * (x.den \div g),
            (x.den \div g) * y.den)

Neg(x) == [num |-> -x.num, den |-> x.den]

Minus(x, y) == Plus(x, Neg(y))

Times(x, y) ==
    LET g1 == GCD(AbsInt(x.num), y.den)
        g2 == GCD(AbsInt(y.num), x.den)
    IN  Sig((x.num \div g1) * (y.num \div g2),
            (x.den \div g2) * (y.den \div g1))

\* x / y for y # 0
Over(x, y) ==
    Times(x, IF y.num < 0 THEN [num |-> -y.den, den |-> -y.num]
             ELSE [num |-> y.den, den |-> y.num])

Less(x, y) ==
    LET g == GCD(x.den, y.den)
    IN  x.num * (y.den \div g) < y.num * (x.den \div g)

LessEq(x, y) == ~Less(y, x)

\* Math.abs, Math.sign, Math.max and Math.min on these numbers
MathAbs(x) == [num |-> AbsInt(x.num), den |-> x.den]
MathSign(x) == Num(IF x.num > 0 THEN 1 ELSE IF x.num < 0 THEN -1 ELSE 0)
Larger(x, y) == IF Less(x, y) THEN y ELSE x
Smaller(x, y) == IF Less(y, x) THEN y ELSE x

(***************************************************************************)
(* Wide arithmetic, for sums and products that outgrow the fractions       *)
(* above: naturals as little-endian sequences of base-10000 digits, and    *)
(* fractions of them.                                                      *)
(***************************************************************************)
RECURSIVE Wide(_)
Wide(x) == IF x = 0 THEN <<>> ELSE <<x % 10000>> \o Wide(x \div 10000)

Digit0(a) == IF a = <<>> THEN 0 ELSE Head(a)
Rest(a) == IF a = <<>> THEN <<>> ELSE Tail(a)

RECURSIVE WAddC(_, _, _)
WAddC(a, b, c) ==
    IF a = <<>> /\ b = <<>> THEN (IF c = 0 THEN <<>> ELSE <<c>>)
    ELSE LET x == Digit0(a) + Digit0(b) + c
         IN  <<x % 10000>> \o WAddC(Rest(a), Rest(b), x \div 10000)

WAdd(a, b) == WAddC(a, b, 0)

RECURSIVE WMulDigit(_, _, _)
WMulDigit(a, k, c) ==
    IF a = <<>> THEN (IF c = 0 THEN <<>> ELSE <<c>>)
    ELSE LET x == Head(a) * k + c
         IN  <<x % 10000>> \o WMulDigit(Tail(a), k, x \div 10000)

RECURSIVE WMul(_, _)
WMul(a, b) ==
    IF b = <<>> THEN <<>>
    ELSE WAdd(WMulDigit(a, Head(b), 0), <<0>> \o WMul(a, Tail(b)))

\* the sign of a - b (high-order zero digits do not matter)
RECURSIVE WCmp(_, _)
WCmp(a, b) ==
    IF a = <<>> /\ b = <<>> THEN 0
    ELSE LET high == WCmp(Rest(a), Rest(b))
         IN  IF high # 0 THEN high
             ELSE IF Digit0(a) < Digit0(b) THEN -1
             ELSE IF Digit0(a) > Digit0(b) THEN 1
             ELSE 0

Q(r) == [num |-> Wide(r.num), den |-> Wide(r.den)]
QMul(x, y) == [num |-> WMul(x.num, y.num), den |-> WMul(x.den, y.den)]
QDiv(x, y) == [num |-> WMul(x.num, y.den), den |-> WMul(x.den, y.num)]
QAdd(x, y) ==
    [num |-> WAdd(WMul(x.num, y.den), WMul(y.num, x.den)),
     den |-> WMul(x.den, y.den)]
QLeq(x, y) == WCmp(WMul(x.num, y.den), WMul(y.num, x.den)) <= 0

(***************************************************************************)
(* simulation (js/physics.js from line 225): configuration and the         *)
(* volume <-> wall-position mapping.                                       *)
(***************************************************************************)
\* SIMULATION_CONFIG after initPhysicsEngine in a container no larger than
\* the minimal canvas: width = Math.max(400, ...), height = Math.max(250, ...)
SIMULATION_CONFIG ==
    [width |-> Num(400), height |-> Num(250), particleRadius |-> Num(5),
     pistonThickness |-> Num(30), wallThickness |-> Num(20)]

\* VOLUME_MAPPING after initPhysicsEngine has recomputed minX and maxX
VOLUME_MAPPING ==
    LET safeMargin == Plus(SIMULATION_CONFIG.wallThickness,
                           SIMULATION_CONFIG.pistonThickness)
    IN  [minVolume |-> Num(10), maxVolume |-> Num(50),
         minX |-> Plus(safeMargin,
                       Times(SIMULATION_CONFIG.width, Rat(15, 100))),
         maxX |-> Minus(Minus(SIMULATION_CONFIG.width, safeMargin),
                        Times(SIMULATION_CONFIG.width, Rat(5, 100)))]

Half(x) == Over(x, Num(2))

calculatePistonPosition(volume) ==
    LET m == VOLUME_MAPPING
        clampedVolume == Larger(m.minVolume, Smaller(m.maxVolume, volume))
        normalizedVolume ==
            Over(Minus(clampedVolume, m.minVolume),
                 Minus(m.maxVolume, m.minVolume))
    IN  Plus(m.minX, Times(normalizedVolume, Minus(m.maxX, m.minX)))

calculateTargetXFromVolume(volume) ==
    Minus(calculatePistonPosition(volume),
          Half(SIMULATION_CONFIG.pistonThickness))

\* an inverse mapping that takes the wall's centre for the piston position
calculateVolumeFromWallCentre(wallX) ==
    LET m == VOLUME_MAPPING
        clampedX == Larger(m.minX, Smaller(m.maxX, wallX))
        normalizedX == Over(Minus(clampedX, m.minX), Minus(m.maxX, m.minX))
        volume == Plus(m.minVolume,
                       Times(normalizedX, Minus(m.maxVolume, m.minVolume)))
    IN  Larger(m.minVolume, Smaller(m.maxVolume, volume))

calculateVolumeFromWallPosition(wallX) ==
    LET pistonX == Plus(wallX, Half(SIMULATION_CONFIG.pistonThickness))
        m == VOLUME_MAPPING
        clampedX == Larger(m.minX, Smaller(m.maxX, pistonX))
        normalizedX == Over(Minus(clampedX, m.minX), Minus(m.maxX, m.minX))
        volume == Plus(m.minVolume,
                       Times(normalizedX, Minus(m.maxVolume, m.minVolume)))
    IN  Larger(m.minVolume, Smaller(m.maxVolume, volume))

(***************************************************************************)
(* simulation: the engine's state.  sim holds                              *)
(*   matter      typeof Matter !== 'undefined'                             *)
(*   engine      engine and world have been created (initPhysicsEngine)    *)
(*   wall        walls.right, the piston: <<>> or <<[x, vx]>>              *)
(*   particles   particles[0]: <<>> or <<[x, y, vx, vy, fx]>>, fx the      *)
(*               force accumulated for the next integration; the model     *)
(*               follows the first particle of the array, every loop over  *)
(*               the array treating each member alike, and leaves the      *)
(*               contacts between particles to resolveElasticCollision     *)
(*   count       particles.length                                          *)
(*   contacts    the walls the particle touched at the last detection      *)
(*   held        the mouse constraint holds the piston (between startdrag  *)
(*               and enddrag)                                              *)
(*   isDragging, volume   the store keys the drag handlers write           *)
(*   stopped     stopSimulation has been called                            *)
(*   thrown      the handlers an exception has escaped from                *)
(*   steps       engine updates so far                                     *)
(*   op          the operation that ran last                               *)
(*   previousTotalKE   the total of the last afterUpdate, as the terms of  *)
(*               its sum: the particles' and the piston's                  *)
(*   anomaly     the last afterUpdate warned of an energy drop             *)
(***************************************************************************)
SimOff ==
    [matter |-> FALSE, engine |-> FALSE, wall |-> <<>>, particles |-> <<>>,
     count |-> 0, contacts |-> {}, held |-> FALSE, isDragging |-> FALSE,
     volume |-> <<>>, stopped |-> FALSE, thrown |-> {}, steps |-> 0,
     op |-> "none",
     previousTotalKE |-> [molecules |-> Q(Num(0)), piston |-> Q(Num(0))],
     anomaly |-> FALSE]

\* Math.round of a number >= 0
MathRound(x) == (2 * x.num + x.den) \div (2 * x.den)

\* the first k decimals of num / den (num < den), as an integer
RECURSIVE Decimals(_, _, _)
Decimals(num, den, k) ==
    IF k = 0 THEN 0
    ELSE LET d == (num * 10) \div den
         IN  d * 10 ^ (k - 1) + Decimals((num * 10) % den, den, k - 1)

\* the integer square root of n <= 10^6
Isqrt(n) == CHOOSE r \in 0..1000 : r * r <= n /\ n < (r + 1) * (r + 1)
IsSquare(n) == n <= 1000000 /\ Isqrt(n) * Isqrt(n) = n

\* Math.pow(x, 2.5) for 0 <= x <= 1: x * x * sqrt(x), exact when x is the
\* square of a fraction, to three decimals otherwise
Pow25(x) ==
    IF x.num = 0 \/ x.num = x.den THEN x
    ELSE IF IsSquare(x.num) /\ IsSquare(x.den)
    THEN Times(Times(x, x), Rat(Isqrt(x.num), Isqrt(x.den)))
    ELSE LET q == Decimals(x.num, x.den, 3)
         IN  Rat((q * q * Isqrt(q * 1000)) \div 1000000, 1000)

SPEED_CURVE_CONFIG ==
    [MIN_SPEED |-> Rat(12, 100), MAX_SPEED |-> Rat(33, 10),
     TEMP_MIN |-> Num(200), TEMP_MAX |-> Num(400)]

\* baseSpeed of applyTemperatureToMolecules
baseSpeed(temperature) ==
    LET c == SPEED_CURVE_CONFIG
        normalizedTemp == Over(Minus(temperature, c.TEMP_MIN),
                               Minus(c.TEMP_MAX, c.TEMP_MIN))
        curvedValue == Pow25(Larger(Num(0), Smaller(Num(1), normalizedTemp)))
    IN  Plus(c.MIN_SPEED, Times(Minus(c.MAX_SPEED, c.MIN_SPEED), curvedValue))

\* the values Math.random() delivers, and the directions
\* (Math.cos(angle), Math.sin(angle)) of the angles Math.random() * 2 * PI
Randoms == {Rat(39, 40)}
Directions == {<<Num(1), Num(0)>>, <<Sig(-3, 5), Sig(-4, 5)>>}

\* one particle's share of the random numbers: its place and its direction
Draws == [rx : Randoms, ry : {Rat(1, 2)}, dir : Directions]

\* Matter.Bodies.circle at the random place of createParticles and of
\* updateParticleCountAndSpeed
NewParticle(draw) ==
    LET c == SIMULATION_CONFIG
        safeMargin == Plus(Plus(c.wallThickness, c.particleRadius), Num(5))
        pistonX == calculatePistonPosition(Rat(224, 10))
        maxX == Minus(Minus(Minus(pistonX, Half(c.pistonThickness)),
                            c.particleRadius), Num(5))
    IN  [x |-> Plus(Times(draw.rx, Minus(maxX, safeMargin)), safeMargin),
         y |-> Plus(Times(draw.ry,
                          Minus(c.height, Times(Num(2), safeMargin))),
                    safeMargin),
         vx |-> Num(0), vy |-> Num(0), fx |-> Num(0)]

\* applyTemperatureToMolecules: every particle gets the base speed of the
\* temperature in a new random direction
applyTemperatureToMolecules(s, temperature, draw) ==
    IF ~s.matter \/ ~s.engine THEN s
    ELSE [s EXCEPT !.particles =
            [i \in DOMAIN s.particles |->
               [s.particles[i] EXCEPT
                  !.vx = Times(draw.dir[1], baseSpeed(temperature)),
                  !.vy = Times(draw.dir[2], baseSpeed(temperature))]]]

\* createParticles: Math.max(1, Math.round(moles * 20)) particles
createParticles(s, moles, temperature, draw) ==
    IF ~s.matter \/ ~s.engine THEN s
    ELSE LET particleCount ==
                 IF MathRound(Times(moles, Num(20))) < 1 THEN 1
                 ELSE MathRound(Times(moles, Num(20)))
         IN  applyTemperatureToMolecules(
                 [s EXCEPT !.particles = <<NewParticle(draw)>>,
                           !.count = particleCount,
                           !.contacts = {}],
                 temperature, draw)

\* updateParticleCountAndSpeed: Math.round(moles * 10) particles, added at
\* the end or spliced off the end, then the temperature applied to all
updateParticleCountAndSpeed(s, moles, temperature, draw) ==
    IF ~s.matter \/ ~s.engine THEN s
    ELSE LET targetCount == MathRound(Times(moles, Num(10)))
             kept == IF s.count = 0
                     THEN (IF targetCount = 0 THEN <<>>
                           ELSE <<NewParticle(draw)>>)
                     ELSE SubSeq(s.particles, 1,
                                 IF targetCount < Len(s.particles)
                                 THEN targetCount ELSE Len(s.particles))
         IN  applyTemperatureToMolecules(
                 [s EXCEPT !.particles = kept,
                           !.count = targetCount,
                           !.contacts = IF kept = s.particles THEN @ ELSE {}],
                 temperature, draw)

\* createPiston: the piston's centre is put at calculatePistonPosition
createPiston(s, volume) ==
    IF ~s.matter \/ ~s.engine THEN s
    ELSE [s EXCEPT !.wall = <<[x |-> calculatePistonPosition(volume),
                               vx |-> Num(0)]>>]

\* updatePistonPosition: the piston is set to the target when less than one
\* pixel away, else moved a tenth of the way (5 pixels at most); when it
\* moved left, the particles beyond the safe zone get a push (applyForce)
updatePistonPosition(s, volume) ==
    IF ~s.matter \/ s.wall = <<>> \/ ~s.engine THEN s
    ELSE LET c == SIMULATION_CONFIG
             targetWallX == Minus(calculatePistonPosition(volume),
                                  Half(c.pistonThickness))
             currentWallX == s.wall[1].x
             deltaX == Minus(targetWallX, currentWallX)
             moveSpeed ==
                 Times(MathSign(deltaX),
                       Smaller(Times(MathAbs(deltaX), Rat(1, 10)), Num(5)))
             actualWallX ==
                 IF Less(MathAbs(deltaX), Num(1)) THEN targetWallX
                 ELSE Plus(currentWallX, moveSpeed)
             safeZone == Minus(Minus(Minus(actualWallX,
                                           Half(c.pistonThickness)),
                                     c.particleRadius), Num(2))
         IN  [s EXCEPT
                !.wall[1].x = actualWallX,
                !.particles =
                   [i \in DOMAIN s.particles |->
                      IF Less(deltaX, Num(0))
                           /\ Less(safeZone, s.particles[i].x)
                      THEN [s.particles[i] EXCEPT
                              !.fx = Plus(@, Sig(-1, 100))]
                      ELSE s.particles[i]]]

\* an update that goes on without an engine: the first use of the missing
\* backend throws
updateUnguarded(s, currentState, draw) ==
    IF ~s.matter \/ ~s.engine
    THEN [s EXCEPT !.thrown = @ \cup {"update"}]
    ELSE updatePistonPosition(
             updateParticleCountAndSpeed(s, currentState.n, currentState.T,
                                         draw),
             currentState.V)

\* update(currentState): population and speed, then the piston (the
\* curvature update only recolours the piston)
update(s, currentState, draw) ==
    IF ~s.matter \/ ~s.engine THEN s
    ELSE updatePistonPosition(
             updateParticleCountAndSpeed(s, currentState.n, currentState.T,
                                         draw),
             currentState.V)

\* stopSimulation: every particle's velocity is set to (0, 0)
stopSimulation(s) ==
    IF ~s.matter \/ ~s.engine THEN s
    ELSE [s EXCEPT !.particles =
            [i \in DOMAIN s.particles |->
               [s.particles[i] EXCEPT !.vx = Num(0), !.vy = Num(0)]]]

\* initPhysicsEngine(initialState): engine, walls, piston and particles
initPhysicsEngine(s, initialState, draw) ==
    createParticles(
        createPiston([s EXCEPT !.engine = TRUE], initialState.V),
        initialState.n, initialState.T, draw)

\* init(containerElement, initialState): the engine is built at once when
\* Matter is loaded; otherwise the fallback is shown and a timer retries
init(s, initialState, draw) ==
    IF ~s.matter THEN s ELSE initPhysicsEngine(s, initialState, draw)

\* a homing controller that snaps whenever it is within half a pixel
beforeUpdateSnapAlways(s, V) ==
    IF s.wall = <<>> THEN s
    ELSE IF s.isDragging THEN s
    ELSE LET targetX == calculateTargetXFromVolume(V)
             currentX == s.wall[1].x
             distance == Minus(targetX, currentX)
         IN  IF Less(MathAbs(distance), Rat(5, 10))
             THEN [s EXCEPT !.wall[1].vx = Num(0), !.wall[1].x = targetX]
             ELSE [s EXCEPT !.wall[1].vx = Times(distance, Rat(2, 10))]

\* a homing controller whose gain takes the wall past its target
beforeUpdateOvershoot(s, V) ==
    IF s.wall = <<>> THEN s
    ELSE IF s.isDragging THEN s
    ELSE LET targetX == calculateTargetXFromVolume(V)
             currentX == s.wall[1].x
             distance == Minus(targetX, currentX)
         IN  IF Less(MathAbs(distance), Rat(5, 10))
             THEN [s EXCEPT
                     !.wall[1].vx = Num(0),
                     !.wall[1].x = IF Less(Rat(1, 10), MathAbs(distance))
                                   THEN targetX ELSE @]
             ELSE [s EXCEPT !.wall[1].vx = Times(distance, Rat(12, 10))]

\* the beforeUpdate handler, the homing controller: it reads V and
\* isDragging from window.getState()
beforeUpdate(s, V) ==
    IF s.wall = <<>> THEN s
    ELSE IF s.isDragging THEN s
    ELSE LET targetX == calculateTargetXFromVolume(V)
             currentX == s.wall[1].x
             distance == Minus(targetX, currentX)
         IN  IF Less(MathAbs(distance), Rat(5, 10))
             THEN [s EXCEPT
                     !.wall[1].vx = Num(0),
                     !.wall[1].x = IF Less(Rat(1, 10), MathAbs(distance))
                                   THEN targetX ELSE @]
             ELSE [s EXCEPT !.wall[1].vx = Times(distance, Rat(2, 10))]

\* the engine's time step in ms (engine.timing.delta, one frame at 60 FPS)
FrameDelta == Rat(50, 3)

\* the engine's integration of the piston and of the particle (mass 1):
\* velocity += force / mass * delta^2, position += velocity, force cleared
Integrate(s) ==
    [s EXCEPT
       !.wall = [i \in DOMAIN s.wall |->
                   [s.wall[i] EXCEPT !.x = Plus(@, s.wall[i].vx)]],
       !.particles =
          [i \in DOMAIN s.particles |->
             LET q == s.particles[i]
                 vx == Plus(q.vx, Times(q.fx, Times(FrameDelta, FrameDelta)))
             IN  [x |-> Plus(q.x, vx), y |-> Plus(q.y, q.vy),
                  vx |-> vx, vy |-> q.vy, fx |-> Num(0)]]]

\* the inner faces of the fixed walls and of the piston
LeftFace == SIMULATION_CONFIG.wallThickness
TopFace == SIMULATION_CONFIG.wallThickness
BottomFace == Minus(SIMULATION_CONFIG.height, SIMULATION_CONFIG.wallThickness)
PistonFace(s) == Minus(s.wall[1].x, Half(SIMULATION_CONFIG.pistonThickness))

\* the engine's collision detection between the particle q and the walls:
\* the walls whose body the particle's disc overlaps
Touching(s, q) ==
    LET r == SIMULATION_CONFIG.particleRadius
    IN  {w \in {"left", "right", "top", "bottom"} :
           \/ w = "left" /\ Less(Minus(q.x, r), LeftFace)
           \/ w = "right" /\ s.wall # <<>> /\ Less(PistonFace(s), Plus(q.x, r))
           \/ w = "top" /\ Less(Minus(q.y, r), TopFace)
           \/ w = "bottom" /\ Less(BottomFace, Plus(q.y, r))}

isVerticalWall(w) == w \in {"left", "right"}

\* a wall contact that reverses the whole velocity
handleCustomCollisionReverse(q, walls) ==
    [q EXCEPT
       !.vx = IF walls # {} THEN Neg(@) ELSE @,
       !.vy = IF walls # {} THEN Neg(@) ELSE @]

\* handleCustomCollision for the particle q and each wall of walls: a
\* vertical wall negates vx, a horizontal wall negates vy
handleCustomCollision(q, walls) ==
    [q EXCEPT
       !.vx = IF Cardinality({w \in walls : isVerticalWall(w)}) % 2 = 1
              THEN Neg(@) ELSE @,
       !.vy = IF Cardinality({w \in walls : ~isVerticalWall(w)}) % 2 = 1
              THEN Neg(@) ELSE @]

\* the mass createParticles and updateParticleCountAndSpeed give a particle
ParticleMass == Num(1)

\* Math.sqrt, exact on the squares of fractions
MathSqrt(x) == Sig(Isqrt(x.num), Isqrt(x.den))

\* a resolution that exchanges the whole velocities
resolveElasticCollisionExchange(body1, body2) ==
    LET nx == Minus(body2.x, body1.x)
        ny == Minus(body2.y, body1.y)
        distance == MathSqrt(Plus(Times(nx, nx), Times(ny, ny)))
    IN  IF distance = Num(0) THEN <<body1, body2>>
        ELSE <<[body1 EXCEPT !.vx = body2.vx, !.vy = body2.vy],
               [body2 EXCEPT !.vx = body1.vx, !.vy = body1.vy]>>

\* resolveElasticCollision(body1, body2): the velocities are split along
\* the line of centres and across it, the normal parts get the
\* one-dimensional elastic formulas, the tangential parts stay
resolveElasticCollision(body1, body2) ==
    LET m1 == ParticleMass
        m2 == ParticleMass
        nx == Minus(body2.x, body1.x)
        ny == Minus(body2.y, body1.y)
        distance == MathSqrt(Plus(Times(nx, nx), Times(ny, ny)))
    IN  IF distance = Num(0) THEN <<body1, body2>>
        ELSE
        LET unx == Over(nx, distance)
            uny == Over(ny, distance)
            utx == Neg(uny)
            uty == unx
            v1n == Plus(Times(unx, body1.vx), Times(uny, body1.vy))
            v1t == Plus(Times(utx, body1.vx), Times(uty, body1.vy))
            v2n == Plus(Times(unx, body2.vx), Times(uny, body2.vy))
            v2t == Plus(Times(utx, body2.vx), Times(uty, body2.vy))
            v1n_new == Over(Plus(Times(v1n, Minus(m1, m2)),
                                 Times(Times(Num(2), m2), v2n)),
                            Plus(m1, m2))
            v2n_new == Over(Plus(Times(v2n, Minus(m2, m1)),
                                 Times(Times(Num(2), m1), v1n)),
                            Plus(m1, m2))
        IN  <<[body1 EXCEPT
                 !.vx = Plus(Times(v1n_new, unx), Times(v1t, utx)),
                 !.vy = Plus(Times(v1n_new, uny), Times(v1t, uty))],
              [body2 EXCEPT
                 !.vx = Plus(Times(v2n_new, unx), Times(v2t, utx)),
                 !.vy = Plus(Times(v2n_new, uny), Times(v2t, uty))]>>

\* collisionStart: the pairs that began to touch in this update
collisionStart(s) ==
    [s EXCEPT
       !.particles =
          [i \in DOMAIN s.particles |->
             handleCustomCollision(s.particles[i],
                                   Touching(s, s.particles[i]) \ s.contacts)],
       !.contacts = IF s.particles = <<>> THEN {}
                    ELSE Touching(s, s.particles[1])]

\* a boundary pass that reverses the component of every correction
enforceAllBoundariesReverse(s) ==
    IF ~s.matter \/ ~s.engine \/ s.count = 0 THEN s
    ELSE LET c == SIMULATION_CONFIG
             radius == c.particleRadius
             left == Plus(Half(c.wallThickness), Half(c.wallThickness))
             right == IF s.wall # <<>>
                      THEN Minus(s.wall[1].x, Half(c.wallThickness))
                      ELSE Minus(c.width, c.wallThickness)
             top == Plus(Half(c.wallThickness), Half(c.wallThickness))
             bottom == Minus(Minus(c.height, Half(c.wallThickness)),
                             Half(c.wallThickness))
         IN  [s EXCEPT !.particles =
                [i \in DOMAIN s.particles |->
                   LET q == s.particles[i]
                       x == IF Less(Minus(q.x, radius), left)
                            THEN Plus(left, radius)
                            ELSE IF Less(right, Plus(q.x, radius))
                            THEN Minus(right, radius)
                            ELSE q.x
                       vx == IF Less(Minus(q.x, radius), left)
                             THEN Neg(q.vx)
                             ELSE IF Less(right, Plus(q.x, radius))
                             THEN Neg(q.vx)
                             ELSE q.vx
                       y == IF Less(Minus(q.y, radius), top)
                            THEN Plus(top, radius)
                            ELSE IF Less(bottom, Plus(q.y, radius))
                            THEN Minus(bottom, radius)
                            ELSE q.y
                       vy == IF Less(Minus(q.y, radius), top)
                             THEN Neg(q.vy)
                             ELSE IF Less(bottom, Plus(q.y, radius))
                             THEN Neg(q.vy)
                             ELSE q.vy
                   IN  [q EXCEPT !.x = x, !.y = y, !.vx = vx, !.vy = vy]]]

\* enforceAllBoundaries, run by the afterUpdate handler: the four planes
\* are each wall's centre plus or minus half of wallThickness
enforceAllBoundaries(s) ==
    IF ~s.matter \/ ~s.engine \/ s.count = 0 THEN s
    ELSE LET c == SIMULATION_CONFIG
             radius == c.particleRadius
             left == Plus(Half(c.wallThickness), Half(c.wallThickness))
             right == IF s.wall # <<>>
                      THEN Minus(s.wall[1].x, Half(c.wallThickness))
                      ELSE Minus(c.width, c.wallThickness)
             top == Plus(Half(c.wallThickness), Half(c.wallThickness))
             bottom == Minus(Minus(c.height, Half(c.wallThickness)),
                             Half(c.wallThickness))
         IN  [s EXCEPT !.particles =
                [i \in DOMAIN s.particles |->
                   LET q == s.particles[i]
                       x == IF Less(Minus(q.x, radius), left)
                            THEN Plus(left, radius)
                            ELSE IF Less(right, Plus(q.x, radius))
                            THEN Minus(right, radius)
                            ELSE q.x
                       vx == IF Less(Minus(q.x, radius), left)
                             THEN (IF Less(q.vx, Num(0)) THEN Neg(q.vx)
                                   ELSE q.vx)
                             ELSE IF Less(right, Plus(q.x, radius))
                             THEN (IF Less(Num(0), q.vx) THEN Neg(q.vx)
                                   ELSE q.vx)
                             ELSE q.vx
                       y == IF Less(Minus(q.y, radius), top)
                            THEN Plus(top, radius)
                            ELSE IF Less(bottom, Plus(q.y, radius))
                            THEN Minus(bottom, radius)
                            ELSE q.y
                       vy == IF Less(Minus(q.y, radius), top)
                             THEN (IF Less(q.vy, Num(0)) THEN Neg(q.vy)
                                   ELSE q.vy)
                             ELSE IF Less(bottom, Plus(q.y, radius))
                             THEN (IF Less(Num(0), q.vy) THEN Neg(q.vy)
                                   ELSE q.vy)
                             ELSE q.vy
                   IN  [q EXCEPT !.x = x, !.y = y, !.vx = vx, !.vy = vy]]]

\* the mass createPiston gives the piston, a body that is not static
PistonMass == Num(1000)

QLess(x, y) == ~QLeq(y, x)

\* 0.5 * body.mass * (body.velocity.x ** 2 + body.velocity.y ** 2)
KineticEnergy(mass, vx, vy) ==
    QMul(Q(Times(Rat(1, 2), mass)),
         QAdd(QMul(Q(MathAbs(vx)), Q(MathAbs(vx))),
              QMul(Q(MathAbs(vy)), Q(MathAbs(vy)))))

RECURSIVE MoleculesKineticEnergy(_)
MoleculesKineticEnergy(bodies) ==
    IF bodies = <<>> THEN Q(Num(0))
    ELSE QAdd(KineticEnergy(ParticleMass, Head(bodies).vx, Head(bodies).vy),
              MoleculesKineticEnergy(Tail(bodies)))

\* calculateTotalKineticEnergy: the sum over the bodies of the world that
\* are not static, which are the particles and the piston
calculateTotalKineticEnergy(s) ==
    [molecules |-> MoleculesKineticEnergy(s.particles),
     piston |-> IF s.wall = <<>> THEN Q(Num(0))
                ELSE KineticEnergy(PistonMass, s.wall[1].vx, Num(0))]

TotalKE(ke) == QAdd(ke.molecules, ke.piston)

\* the afterUpdate handler: the boundary pass, then the energy monitor,
\* which warns when deltaKE < -0.001
afterUpdate(s) ==
    TheOne({[passed EXCEPT
               !.anomaly = QLess(QAdd(TotalKE(currentTotalKE),
                                      Q(Rat(1, 1000))),
                                 TotalKE(passed.previousTotalKE)),
               !.previousTotalKE = currentTotalKE] :
              passed \in {enforceAllBoundaries(s)},
              currentTotalKE \in
                {calculateTotalKineticEnergy(enforceAllBoundaries(s))}})

\* one engine update: beforeUpdate, integration, collisionStart, afterUpdate
EngineUpdate(s, V) ==
    TheOne({[afterUpdate(collided) EXCEPT !.steps = @ + 1] :
              collided \in
                {collisionStart(integrated) :
                   integrated \in
                     {Integrate(homed) : homed \in {beforeUpdate(s, V)}}}})

\* window.stateManager: main.js puts updateState, getState and
\* stopSimulation on window, and nothing puts stateManager there
windowStateManager == Undefined

(***************************************************************************)
(* main.js: the handlers.  call holds the last invocation of               *)
(* calculateNewState, if any: its arguments and the object it returned.    *)
(***************************************************************************)
Invocation(globalState, changeInfo) ==
    [globalState |-> globalState, changeInfo |-> changeInfo,
     result |-> calculateNewState(globalState, changeInfo)]

\* handleStateChange, the listener of stateShouldUpdate: after the clamp of
\* calculatePhysics it hands the store to simulation.update
SimulationFollows(dispatched) ==
    \E draw \in Draws :
        sim' = IF dispatched
               THEN [update(sim, state', draw) EXCEPT !.op = "update"]
               ELSE sim

\* a handler that commits whatever came back
CommitAlways(s, result) == updateState(s, result.newState)

\* what handleUIAction does with the result of a control change: commit the
\* new state on success, leave the store alone (and revert the slider) on
\* failure
CommitResult(s, result) ==
    IF result.success THEN updateState(s, result.newState) ELSE s

\* handleUIAction on { type: 'control_change', payload: { var, value } } for
\* one of P, V, T, n
handleUIAction(variable, value) ==
    /\ call' = <<Invocation(state, [variable |-> variable, value |-> value])>>
    /\ state' = CommitResult(state, call'[1].result)
    /\ SimulationFollows(call'[1].result.success)

\* the values the sliders of the control panel deliver
SliderValues(variable) ==
    CASE variable = "P" -> {Num(50), Num(100), Num(200)}
      [] variable = "V" -> {Num(10), Num(25), Num(50)}
      [] variable = "T" -> {Num(200), Num(300), Num(400)}
      [] variable = "n" -> {Rat(5, 10), Rat(15, 10), Num(3)}

\* the gas_type_change payloads (gasType, a, b)
GasChoices ==
    {<<"ideal", Num(0), Num(0)>>,
     <<"CO2", Rat(3643, 10), Rat(427, 10000)>>}

\* the number of control changes a run may commit
MaxChanges == 1

Init ==
    /\ state = InitialState
    /\ call = <<>>
    /\ changes = 0
    /\ sim = SimOff
    /\ store = StartUp
    /\ notifier = NotifierIdle

\* handleUIAction, control_change of P, V, T or n
ControlChange(variable, value) ==
    /\ changes < MaxChanges
    /\ handleUIAction(variable, value)
    /\ changes' = IF call'[1].result.success THEN changes + 1 ELSE changes
    /\ UNCHANGED <<store, notifier>>

\* handleUIAction, gas_type_change
GasTypeChange(choice) ==
    /\ state' = updateState(state, [gasType |-> choice[1], a |-> choice[2],
                                    b |-> choice[3]])
    /\ SimulationFollows(TRUE)
    /\ UNCHANGED <<call, changes, store, notifier>>

\* handleLockToggle
LockToggle(variable) ==
    /\ state.lockedVariable # variable
    /\ state' = updateState(state, [lockedVariable |-> variable])
    /\ SimulationFollows(TRUE)
    /\ UNCHANGED <<call, changes, store, notifier>>

Next ==
    \/ \E variable \in {"P", "V", "T", "n"} :
         \E value \in SliderValues(variable) : ControlChange(variable, value)
    \/ \E choice \in GasChoices : GasTypeChange(choice)
    \/ \E variable \in {"P", "V", "T"} : LockToggle(variable)

Spec == Init /\ [][Next]_vars

(***************************************************************************)
(* The coordinator as a function, and the handler around it: one control   *)
(* change on every state of a grid over the bounds table (and on the       *)
(* store's initial values), under every lock, for every request.           *)
(***************************************************************************)
GridN == 2

\* min + k * (max - min) / GridN
GridPoint(bounds, k) ==
    Rat(bounds.min.num * bounds.max.den * (GridN - k)
          + bounds.max.num * bounds.min.den * k,
        bounds.min.den * bounds.max.den * GridN)

Grid(variable) == {GridPoint(BOUNDS[variable], k) : k \in 0..GridN}

Locks == {"P", "V", "T", Null}

GridStates ==
    {[P |-> p, V |-> v, T |-> t, n |-> m, gasType |-> g[1], a |-> g[2],
      b |-> g[3], lockedVariable |-> l] :
        p \in Grid("P"), v \in Grid("V"), t \in Grid("T"), m \in Grid("n"),
        g \in GasChoices, l \in Locks}

StoreStates ==
    {[InitialState EXCEPT !.gasType = g[1], !.a = g[2], !.b = g[3],
                          !.lockedVariable = l] :
        g \in GasChoices, l \in Locks}

RequestValues(variable) ==
    Grid(variable) \cup (IF variable = "V" THEN {Rat(112, 10)} ELSE {})

InitCalc ==
    /\ state \in GridStates \cup StoreStates
    /\ call = <<>>
    /\ changes = 0
    /\ sim = SimOff
    /\ store = StartUp
    /\ notifier = NotifierIdle

Calculate(variable, value) ==
    /\ call = <<>>
    /\ handleUIAction(variable, value)
    /\ UNCHANGED <<changes, store, notifier>>

NextCalc ==
    \E variable \in {"P", "V", "T", "n"} :
      \E value \in RequestValues(variable) : Calculate(variable, value)

SpecCalc == InitCalc /\ [][NextCalc]_vars

(***************************************************************************)
(* The simulation next to the store: the engine's updates, the control     *)
(* changes that reach simulation.update through the store, the drag        *)
(* events of the mouse constraint, stopSimulation, and the late load of    *)
(* Matter.                                                                 *)
(***************************************************************************)
MaxSteps == 2

\* after simulation.init(container, stateManager.state) in the
\* DOMContentLoaded handler, with Matter loaded or not
InitSim ==
    /\ state = InitialState
    /\ call = <<>>
    /\ changes = 0
    /\ store = StartUp
    /\ notifier = NotifierIdle
    /\ sim \in {init([SimOff EXCEPT !.matter = loaded], InitialState, draw) :
                  loaded \in BOOLEAN, draw \in Draws}

\* the Matter script arrives after init has given up on it
MatterLoads ==
    /\ ~sim.matter
    /\ sim' = [sim EXCEPT !.matter = TRUE, !.op = "load"]
    /\ UNCHANGED <<state, call, changes, store, notifier>>

\* the retry timer of init finds Matter and calls initPhysicsEngine with
\* the store object it was given
RetryInit ==
    /\ sim.matter /\ ~sim.engine
    /\ \E draw \in Draws :
         sim' = [initPhysicsEngine(sim, state, draw) EXCEPT !.op = "init"]
    /\ UNCHANGED <<state, call, changes, store, notifier>>

\* one tick of the runner (a run is followed for MaxSteps ticks and
\* committed control changes)
Step ==
    /\ sim.matter /\ sim.engine
    /\ sim.steps + changes < MaxSteps
    /\ sim' = [EngineUpdate(sim, state.V) EXCEPT !.op = "step"]
    /\ UNCHANGED <<state, call, changes, store, notifier>>

\* the startdrag handler: window.stateManager.updateState({ isDragging:
\* true }), which throws when window.stateManager is undefined
StartDrag ==
    /\ sim.matter /\ sim.engine
    /\ ~sim.held
    /\ IF windowStateManager = Undefined
       THEN /\ sim' = [sim EXCEPT !.held = TRUE, !.op = "startdrag",
                                  !.thrown = @ \cup {"startdrag"}]
            /\ state' = state
       ELSE /\ state' = updateState(state, <<>>)
            /\ \E draw \in Draws :
                 sim' = [update([sim EXCEPT !.isDragging = TRUE], state',
                                draw)
                           EXCEPT !.held = TRUE, !.op = "startdrag"]
    /\ UNCHANGED <<call, changes, store, notifier>>

\* where the pointer may take the piston
DragPositions == {Num(250)}

\* the mouse constraint, while it holds the piston, takes it to the pointer
DragMove(x) ==
    /\ sim.held
    /\ sim.wall[1].x # x
    /\ sim' = [sim EXCEPT !.wall[1].x = x, !.wall[1].vx = Num(0),
                          !.op = "dragmove"]
    /\ UNCHANGED <<state, call, changes, store, notifier>>

\* the enddrag handler: window.stateManager.updateState({ isDragging:
\* false }), then the piston's position as a volume under the key volume
EndDrag ==
    /\ sim.held
    /\ IF windowStateManager = Undefined
       THEN /\ sim' = [sim EXCEPT !.held = FALSE, !.op = "enddrag",
                                  !.thrown = @ \cup {"enddrag"}]
            /\ state' = state
       ELSE /\ state' = updateState(updateState(state, <<>>), <<>>)
            /\ \E draw \in Draws :
                 sim' = [update(
                            update([sim EXCEPT !.isDragging = FALSE], state',
                                   draw),
                            state', draw)
                           EXCEPT !.held = FALSE, !.op = "enddrag",
                                  !.volume =
                                     <<calculateVolumeFromWallPosition(
                                           sim.wall[1].x)>>]
    /\ UNCHANGED <<call, changes, store, notifier>>

\* window.stopSimulation(), called by submitFinalReport
StopSimulation ==
    /\ sim' = [stopSimulation(sim) EXCEPT !.stopped = TRUE, !.op = "stop"]
    /\ UNCHANGED <<state, call, changes, store, notifier>>

NextSim ==
    \/ MatterLoads
    \/ RetryInit
    \/ Step
    \/ \E value \in SliderValues("V") : ControlChange("V", value)
    \/ StartDrag
    \/ \E x \in DragPositions : DragMove(x)
    \/ EndDrag
    \/ StopSimulation

SpecSim == InitSim /\ [][NextSim]_vars

(***************************************************************************)
(* The simulation's handlers as functions: one application of the homing   *)
(* controller, of the contact handler or of the volume mapping to a state  *)
(* drawn from a grid of pistons around the target and a family of          *)
(* particle pairs.                                                         *)
(***************************************************************************)
FnVolumes == {Num(10), Rat(224, 10), Rat(333, 10), Num(50)}

\* the piston's distance from its target
FnOffsets ==
    {Sig(-20, 1), Sig(-1, 2), Sig(-3, 10), Sig(-1, 10), Sig(-1, 20), Num(0),
     Sig(1, 20), Sig(1, 10), Sig(3, 10), Sig(1, 2), Num(20)}

FnVelocities ==
    {<<Num(1), Num(0)>>, <<Sig(-1, 1), Num(0)>>, <<Rat(3, 5), Rat(4, 5)>>,
     <<Sig(-3, 5), Sig(-4, 5)>>, <<Num(0), Sig(-2, 1)>>}

\* the second centre seen from the first
FnSeparations ==
    {<<Num(10), Num(0)>>, <<Num(0), Num(10)>>, <<Num(6), Num(8)>>,
     <<Sig(-8, 1), Num(6)>>, <<Num(0), Num(0)>>}

\* the first particle's x, absolute or to the left of the piston's centre,
\* and its y: beyond, at and inside each plane of the boundary pass
FnPlacesX ==
    {<<"left", Num(10)>>, <<"left", Num(25)>>, <<"left", Num(60)>>,
     <<"piston", Num(15)>>, <<"piston", Num(2)>>}
FnPlacesY == {Num(10), Num(25), Num(125), Num(225), Num(240)}

FnParticle(x, y, v) ==
    [x |-> x, y |-> y, vx |-> v[1], vy |-> v[2], fx |-> Num(0)]

SimOn == [SimOff EXCEPT !.matter = TRUE, !.engine = TRUE]

\* a running engine with the piston at x (velocity vx), the first two of
\* its particles as given
FnSim(x, vx, sep, v1, v2) ==
    [SimOn EXCEPT
       !.wall = <<[x |-> x, vx |-> vx]>>,
       !.particles = <<FnParticle(Num(100), Num(100), v1),
                       FnParticle(Plus(Num(100), sep[1]),
                                  Plus(Num(100), sep[2]), v2)>>,
       !.count = 20]

InitFn ==
    /\ state \in {[InitialState EXCEPT !.V = V] : V \in FnVolumes}
    /\ call = <<>>
    /\ changes = 0
    /\ store = StartUp
    /\ notifier = NotifierIdle
    /\ sim \in
         {FnSim(Plus(calculateTargetXFromVolume(state.V), off), vx,
                <<Num(10), Num(0)>>, <<Num(1), Num(0)>>, <<Num(1), Num(0)>>) :
            off \in FnOffsets, vx \in {Num(0), Sig(-3, 1)}}
         \cup {FnSim(x, Num(0), <<Num(10), Num(0)>>, <<Num(1), Num(0)>>,
                     <<Num(1), Num(0)>>) : x \in {Num(0), Num(400)}}
         \cup {FnSim(calculateTargetXFromVolume(state.V), Num(0), sep, v1,
                     v2) :
                 sep \in FnSeparations, v1 \in FnVelocities,
                 v2 \in FnVelocities}
         \cup {[FnSim(calculateTargetXFromVolume(state.V), Num(0),
                      <<Num(10), Num(0)>>, v, <<Num(1), Num(0)>>)
                   EXCEPT !.particles[1].x =
                             IF place[1] = "piston"
                             THEN Minus(calculateTargetXFromVolume(state.V),
                                        place[2])
                             ELSE place[2],
                          !.particles[1].y = y] :
                 place \in FnPlacesX, y \in FnPlacesY, v \in FnVelocities}

\* the beforeUpdate handler on the drawn state
ApplyBeforeUpdate ==
    /\ sim.op = "none"
    /\ sim' = [beforeUpdate(sim, state.V) EXCEPT !.op = "beforeUpdate"]
    /\ UNCHANGED <<state, call, changes, store, notifier>>

\* handleCustomCollision on the first particle and the wall w
ApplyWallCollision(w) ==
    /\ sim.op = "none"
    /\ sim' = [sim EXCEPT
                 !.particles[1] = handleCustomCollision(@, {w}),
                 !.contacts = {w}, !.op = "wallCollision"]
    /\ UNCHANGED <<state, call, changes, store, notifier>>

\* two particles are a pair of collisionStart when their discs overlap
Overlapping(body1, body2) ==
    LET nx == Minus(body2.x, body1.x)
        ny == Minus(body2.y, body1.y)
        reach == Plus(SIMULATION_CONFIG.particleRadius,
                      SIMULATION_CONFIG.particleRadius)
    IN  LessEq(Plus(Times(nx, nx), Times(ny, ny)), Times(reach, reach))

\* handleCustomCollision on the two particles
ApplyParticleCollision ==
    /\ sim.op = "none"
    /\ Overlapping(sim.particles[1], sim.particles[2])
    /\ sim' = [sim EXCEPT
                 !.particles = resolveElasticCollision(@[1], @[2]),
                 !.op = "particleCollision"]
    /\ UNCHANGED <<state, call, changes, store, notifier>>

\* the piston's position read back as a volume (the enddrag handler's
\* conversion)
ApplyVolumeFromWallPosition ==
    /\ sim.op = "none"
    /\ sim' = [sim EXCEPT
                 !.volume = <<calculateVolumeFromWallPosition(sim.wall[1].x)>>,
                 !.op = "volumeFromWallPosition"]
    /\ UNCHANGED <<state, call, changes, store, notifier>>

\* the store's volume sent to a piston position and read back
ApplyRoundTrip ==
    /\ sim.op = "none"
    /\ sim' = [sim EXCEPT
                 !.wall[1].x = calculateTargetXFromVolume(state.V),
                 !.volume = <<calculateVolumeFromWallPosition(
                                  calculateTargetXFromVolume(state.V))>>,
                 !.op = "roundTrip"]
    /\ UNCHANGED <<state, call, changes, store, notifier>>

\* the boundary pass of the afterUpdate handler on the drawn state
ApplyEnforceAllBoundaries ==
    /\ sim.op = "none"
    /\ sim' = [enforceAllBoundaries(sim) EXCEPT !.op = "enforceAllBoundaries"]
    /\ UNCHANGED <<state, call, changes, store, notifier>>

\* the pass of the next afterUpdate, nothing having moved in between
ApplyEnforceAllBoundariesAgain ==
    /\ sim.op = "enforceAllBoundaries"
    /\ sim' = [enforceAllBoundaries(sim) EXCEPT
                 !.op = "enforceAllBoundariesAgain"]
    /\ UNCHANGED <<state, call, changes, store, notifier>>

\* the moles the store may hand to update
FnMoles == {Rat(1, 2), Num(1), Rat(3, 2), Num(3)}

\* a store update that changes n alone (as a moles change under the lock V
\* leaves V and T), handed to update by handleStateChange
ApplyUpdate(n) ==
    /\ sim.op = "none"
    /\ state' = updateState(state, [n |-> n])
    /\ SimulationFollows(TRUE)
    /\ UNCHANGED <<call, changes, store, notifier>>

NextFn ==
    \/ \E n \in FnMoles : ApplyUpdate(n)
    \/ ApplyEnforceAllBoundaries
    \/ ApplyEnforceAllBoundariesAgain
    \/ ApplyBeforeUpdate
    \/ \E w \in {"left", "right", "top", "bottom"} : ApplyWallCollision(w)
    \/ ApplyParticleCollision
    \/ ApplyVolumeFromWallPosition
    \/ ApplyRoundTrip

SpecFn == InitFn /\ [][NextFn]_vars

(***************************************************************************)
(* The store and the flow of the experiment: the handlers of main.js with  *)
(* what they leave in the log, in the history and in the phase.  A run     *)
(* starts where the page stands after start_experiment, its timer and a    *)
(* number of record_point actions, and is followed for MaxHandled          *)
(* handlers.                                                               *)
(***************************************************************************)
MaxHandled == 3

\* the action types the panels hand to handleFlowAction, and record_point
FlowTypes ==
    {"start_experiment", "next_step", "skip_guide", "reset", "record_point"}

\* handleUIAction on an action that is neither a control change nor a gas
\* change: the log entry, advancePhase, and updateState when the object
\* that came back has a key
FlowStore(st, s, type) ==
    TheOne({LET changed ==
                  isActionAllowed(type, logged.experimentPhase)
                  /\ newPhaseOf(logged.experimentPhase, type)
                       # logged.experimentPhase
            IN  [(IF DOMAIN updates # {}
                  THEN updateStore(logged, s, updates) ELSE logged)
                   EXCEPT !.timers = IF changed THEN @ + 1 ELSE @] :
              logged \in {addLogEntry(st)},
              updates \in {advancePhase(addLogEntry(st), s, type)}})

\* handlePhaseChange, the timer callback of a phase change
PhaseChangeStore(st, s) ==
    addLogEntry(
        updateStore(st, s,
                    [currentStep |-> [feedbackSubmitted |-> FALSE,
                                      hasCorrectLock |-> FALSE,
                                      hasOperatedSlider |-> FALSE]]))

\* the numbers of points recorded before the run is followed
Recordings == {0, 22, 98, 99}

\* the page after start_experiment and its timer
Begun ==
    LET begun == FlowStore(StartUp, InitialState, "start_experiment")
    IN  [PhaseChangeStore(begun, InitialState) EXCEPT !.timers = @ - 1]

\* the page after start_experiment, its timer and m record_point actions,
\* each of which leaves one history point and two log entries
Started(m) ==
    [Begun EXCEPT
       !.history = [i \in 1 .. Len(Begun.history) + m |->
                      HistoryPoint(InitialState)],
       !.log = SliceLast([i \in 1 .. Len(Begun.log) + 2 * m |-> i], 50)]

\* the page after start_experiment, skip_guide and their timers
Skipped ==
    LET skipped == FlowStore(Begun, InitialState, "skip_guide")
    IN  [PhaseChangeStore(skipped, InitialState) EXCEPT !.timers = @ - 1]

InitFlow ==
    /\ state = InitialState
    /\ call = <<>>
    /\ changes = 0
    /\ sim = SimOff
    /\ store \in {StartUp, Skipped} \cup {Started(m) : m \in Recordings}
    /\ notifier = NotifierIdle

\* handleFlowAction(action): the store's gas, the rest of the store, and
\* whether stateShouldUpdate was dispatched
handleFlowAction(st, s, type) ==
    [state |-> IF DOMAIN advancePhase(addLogEntry(st), s, type) # {}
               THEN updateState(s, advancePhase(addLogEntry(st), s, type))
               ELSE s,
     store |-> FlowStore(st, s, type),
     dispatched |-> DOMAIN advancePhase(addLogEntry(st), s, type) # {}]

\* handlePhaseChange(), the timer callback of a phase change
handlePhaseChange(st, s) ==
    [state |-> updateState(s, <<>>),
     store |-> [PhaseChangeStore(st, s) EXCEPT !.timers = @ - 1],
     dispatched |-> TRUE]

\* handleLockToggle(action) on a variable that is not the locked one, with
\* its log entries and its step flag
handleLockToggle(st, s, variable) ==
    [state |-> updateState(s, [lockedVariable |-> variable]),
     store |->
       TheOne({IF startsWithGuided(locked.experimentPhase)
                  /\ getPhaseRequirements(locked.experimentPhase) # <<>>
               THEN updateStore(
                        locked,
                        updateState(s, [lockedVariable |-> variable]),
                        [currentStep |->
                           [hasCorrectLock |->
                              variable = getPhaseRequirements(
                                             locked.experimentPhase)[1]
                                           .requiredLock]])
               ELSE locked :
                 locked \in {addLogEntry(
                                updateStore(st, s,
                                    [lockedVariable |-> variable]))}}),
     dispatched |-> TRUE]

\* handlePlotSwitch(action): a log entry and a patch without P, V, T, n
handlePlotSwitch(st, s) ==
    [state |-> updateState(s, <<>>),
     store |-> updateStore(addLogEntry(st), s, <<>>),
     dispatched |-> TRUE]

\* the calls of these handlers: the handler and its argument
Handlers ==
    {<<"handleFlowAction", type>> : type \in FlowTypes}
      \cup {<<"handleLockToggle", variable>> : variable \in {"P", "V", "T"}}
      \cup {<<"handlePhaseChange", "">>, <<"handlePlotSwitch", "">>}

\* a user's action is followed while the run is short of MaxHandled, the
\* timer callback while a timer is pending
CanRun(h) ==
    CASE h[1] = "handlePhaseChange" -> store.timers > 0
      [] h[1] = "handleLockToggle" ->
           store.handled < MaxHandled /\ state.lockedVariable # h[2]
      [] OTHER -> store.handled < MaxHandled

Outcome(h) ==
    CASE h[1] = "handleFlowAction" -> handleFlowAction(store, state, h[2])
      [] h[1] = "handleLockToggle" -> handleLockToggle(store, state, h[2])
      [] h[1] = "handlePhaseChange" -> handlePhaseChange(store, state)
      [] OTHER -> handlePlotSwitch(store, state)

\* one of these handlers runs
Handle(h) ==
    /\ CanRun(h)
    /\ state' = Outcome(h).state
    /\ SimulationFollows(Outcome(h).dispatched)
    /\ store' = [Outcome(h).store EXCEPT
                   !.handled = IF h[1] = "handlePhaseChange" THEN @
                               ELSE @ + 1,
                   !.last = h]
    /\ UNCHANGED <<call, changes, notifier>>

\* handleUIAction on a control change of P, V, T or n, with the log entries
\* and the step flag that go with it
FlowControlChange(variable, value) ==
    /\ store.handled < MaxHandled
    /\ changes < MaxChanges
    /\ handleUIAction(variable, value)
    /\ changes' = IF call'[1].result.success THEN changes + 1 ELSE changes
    /\ LET logged == addLogEntry(store)
           phase == store.experimentPhase
           requirements == getPhaseRequirements(phase)
           committed == addLogEntry(
                            updateStore(logged, state,
                                        call'[1].result.newState))
           operated ==
             IF startsWithGuided(phase) /\ requirements # <<>>
                /\ variable = requirements[1].requiredSlider
             THEN updateStore(committed, state',
                              [currentStep |-> [hasOperatedSlider |-> TRUE]])
             ELSE committed
       IN  store' = [(IF call'[1].result.success THEN operated
                      ELSE addLogEntry(logged))
                       EXCEPT !.handled = @ + 1,
                              !.last = <<"handleUIAction", variable>>]
    /\ UNCHANGED notifier

NextFlow ==
    \/ \E h \in Handlers : Handle(h)
    \/ \E variable \in {"P", "V", "T", "n"} :
         \E value \in SliderValues(variable) :
           FlowControlChange(variable, value)

SpecFlow == InitFlow /\ [][NextFlow]_vars

(***************************************************************************)
(* The notifier: show() and clearQueue() calls and the timer callbacks in  *)
(* every order (the durations are the caller's, so any pending timer may   *)
(* be the next to fire), for MaxShows calls of show().                     *)
(***************************************************************************)
MaxShows == 3

InitNotifier ==
    /\ state = InitialState
    /\ call = <<>>
    /\ changes = 0
    /\ sim = SimOff
    /\ store = StartUp
    /\ notifier = NotifierIdle

Show ==
    /\ notifier.calls < MaxShows
    /\ notifier' = show(notifier)
    /\ UNCHANGED <<state, call, changes, sim, store>>

ClearQueue ==
    /\ notifier' = clearQueue(notifier)
    /\ UNCHANGED <<state, call, changes, sim, store>>

TimerFires(timer) ==
    /\ timer \in notifier.timers
    /\ notifier' = IF timer.callback = "hide"
                   THEN hideCallback(notifier, timer)
                   ELSE nextCallback(notifier, timer)
    /\ UNCHANGED <<state, call, changes, sim, store>>

NextNotifier ==
    \/ Show
    \/ ClearQueue
    \/ \E timer \in notifier.timers : TimerFires(timer)

SpecNotifier == InitNotifier /\ [][NextNotifier]_vars

(***************************************************************************)
(* The homing of the piston: the runner's ticks on an arena whose piston   *)
(* stands where a drag or an earlier target left it, with nobody holding   *)
(* it and the store left alone.  The runner keeps ticking, and a run is    *)
(* followed for MaxTicks ticks.                                            *)
(***************************************************************************)
MaxTicks == 9

\* target minus wall position at the start, in pixels
HomingOffsets ==
    {Sig(k, 20) : k \in {-40, -30, -20, -12, -10, -9, -5, -2, -1, 0,
                         1, 2, 5, 9, 10, 12, 20, 30, 40}}

InitHoming ==
    /\ state = InitialState
    /\ call = <<>>
    /\ changes = 0
    /\ store = StartUp
    /\ notifier = NotifierIdle
    /\ sim \in {[init([SimOff EXCEPT !.matter = TRUE], InitialState, draw)
                   EXCEPT !.wall[1].x =
                             Minus(calculateTargetXFromVolume(state.V),
                                   offset)] :
                  draw \in Draws, offset \in HomingOffsets}

\* one tick of the runner
Tick ==
    /\ sim.steps < MaxTicks
    /\ sim' = [EngineUpdate(sim, state.V) EXCEPT !.op = "step"]
    /\ UNCHANGED <<state, call, changes, store, notifier>>

NextHoming == Tick

SpecHoming == InitHoming /\ [][NextHoming]_vars /\ WF_vars(Tick)

(***************************************************************************)
(* Properties.  They read the last invocation of calculateNewState (call)  *)
(* and the store (state).                                                  *)
(***************************************************************************)
Made == call # <<>>
Input == call[1].globalState
Request == call[1].changeInfo
Result == call[1].result

\* the Bounds Table as the specification states it
InRange(x, lo, hi) == RGeq(x, lo) /\ RLeq(x, hi)
PInBounds(x) == InRange(x, Num(50), Num(200))
VInBounds(x) == InRange(x, Num(10), Num(50))
TInBounds(x) == InRange(x, Num(200), Num(400))
NInBounds(x) == InRange(x, Rat(1, 2), Num(3))
AllInBounds(s) ==
    PInBounds(s.P) /\ VInBounds(s.V) /\ TInBounds(s.T) /\ NInBounds(s.n)

ValueInBounds(variable, x) ==
    CASE variable = "P" -> PInBounds(x)
      [] variable = "V" -> VInBounds(x)
      [] variable = "T" -> TInBounds(x)
      [] variable = "n" -> NInBounds(x)

\* the call was made on a state inside the bounds with a request inside the
\* bounds of its variable
ValidCall ==
    /\ Made
    /\ AllInBounds(Input)
    /\ ValueInBounds(Request.variable, Request.value)

\* the call went through the coordinator and had to clamp the dependent
\* variable
Coordinated ==
    /\ ValidCall
    /\ Request.variable # "n"
    /\ DependentVariable(Input.lockedVariable, Request.variable) # Undefined
    /\ ~ValueInBounds(DependentVariable(Input.lockedVariable, Request.variable),
                      TheoreticalValue(Input, Request))

\* C1: whenever calculateNewState succeeds on an in-bounds state and an
\* in-bounds request, the returned P, V, T and n all lie inside the Bounds
\* Table: P in [50,200], V in [10,50], T in [200,400], n in [0.5,3].
C1_SuccessInBounds ==
    (ValidCall /\ Result.success) => AllInBounds(Result.newState)

\* a success that went through clamping and moles coordination
C1_Witness == Coordinated /\ Result.success

\* the ideal-gas law solved for one variable (R = 8.314, P in kPa, V in L)
IdealR == Rat(8314, 1000)
Solve(d, s) ==
    CASE d = "P" -> Frac(<<s.n, IdealR, s.T>>, <<s.V>>)
      [] d = "V" -> Frac(<<s.n, IdealR, s.T>>, <<s.P>>)
      [] d = "T" -> Frac(<<s.P, s.V>>, <<s.n, IdealR>>)
      [] d = "n" -> Frac(<<s.P, s.V>>, <<IdealR, s.T>>)

\* P, V, T, n of s with the request applied; s with one variable replaced
Applied(s, variable, value) ==
    [P |-> IF variable = "P" THEN value ELSE s.P,
     V |-> IF variable = "V" THEN value ELSE s.V,
     T |-> IF variable = "T" THEN value ELSE s.T,
     n |-> IF variable = "n" THEN value ELSE s.n]
With(s, d, x) == [s EXCEPT ![d] = x]

SpecMin(d) ==
    CASE d = "P" -> Num(50) [] d = "V" -> Num(10) [] d = "T" -> Num(200)
      [] d = "n" -> Rat(1, 2)
SpecMax(d) ==
    CASE d = "P" -> Num(200) [] d = "V" -> Num(50) [] d = "T" -> Num(400)
      [] d = "n" -> Num(3)

\* the pairing table of the specification: the dependent variable of a
\* lock and a changed variable other than the lock
SpecDependent(lock, variable) ==
    CASE lock = "P" /\ variable = "T" -> "V"
      [] lock = "P" /\ variable = "V" -> "T"
      [] lock = "V" /\ variable = "T" -> "P"
      [] lock = "V" /\ variable = "P" -> "T"
      [] lock = "T" /\ variable = "V" -> "P"
      [] lock = "T" /\ variable = "P" -> "V"
      [] lock = Null /\ variable = "P" -> "T"
      [] lock = Null /\ variable = "V" -> "P"
      [] lock = Null /\ variable = "T" -> "P"

\* the one of P, V, T that is neither changed nor dependent
Held(lock, variable) ==
    CHOOSE h \in {"P", "V", "T"} \ {variable, SpecDependent(lock, variable)} :
        TRUE

Names(message, x) == \E i \in DOMAIN message : message[i] = x

\* a request on n; a request on P, V or T other than the locked variable
DirectMoles == ValidCall /\ Request.variable = "n"
CoordinatorMode ==
    ValidCall /\ Request.variable # "n"
              /\ Request.variable # Input.lockedVariable

\* C3: for every lock and every changed variable (the locked one included)
\* an unsatisfiable request comes back as the value {success: false, reason},
\* and the handler that receives it leaves the store exactly as it was.
C3_FailureIsDataStoreKept ==
    Made =>
        /\ "success" \in Result.keys
        /\ ~Result.success =>
             /\ Result.keys = {"success", "reason"}
             /\ Result.reason # <<>>
             /\ state = Input

\* a request that changes the locked variable itself has failed
C3_Witness ==
    Made /\ ~Result.success /\ Request.variable = Input.lockedVariable

\* the state a direct change of n proposes: V recomputed under a P lock,
\* P recomputed otherwise
DirectProposal ==
    LET s0 == Applied(Input, "n", Request.value)
    IN  IF Input.lockedVariable = "P"
        THEN With(s0, "V", Solve("V", s0))
        ELSE With(s0, "P", Solve("P", s0))

\* C4: in direct-moles mode exactly one variable is recomputed, chosen by the
\* lock alone: V from (newN, T, P) under a P lock, P from (newN, T, V) under
\* a V lock, a T lock or no lock; the other two keep their values.
C4_DirectMolesDependent ==
    (DirectMoles /\ Result.success) => Result.newState = DirectProposal

\* a successful change of n under a P lock that moved V
C4_Witness ==
    /\ DirectMoles /\ Result.success
    /\ Input.lockedVariable = "P"
    /\ Result.newState.V # Input.V

\* C5 (amended): in direct-moles mode the request succeeds exactly when the
\* proposed state has all four values in bounds, and returns that state
\* unclamped; otherwise it fails, always with the same message, which says
\* that other variables left their bounds and names none of them.
C5_DirectMolesAllOrNothing ==
    DirectMoles =>
        /\ Result.success <=> AllInBounds(DirectProposal)
        /\ Result.success => Result.newState = DirectProposal
        /\ ~Result.success =>
             /\ Result.reason =
                  <<"moles change drives other variables out of bounds">>
             /\ \A v \in {"P", "V", "T", "n"} : ~Names(Result.reason, v)

\* a change of n under a P lock whose volume leaves [10,50] has failed
C5_Witness ==
    /\ DirectMoles /\ ~Result.success
    /\ Input.lockedVariable = "P"
    /\ ~VInBounds(DirectProposal.V)

\* C5 as stated: ... and with P locked every n whose recomputed V falls
\* outside [10,50] yields a failure whose reason identifies V.
C5_ReasonIdentifiesVariable ==
    DirectMoles =>
        /\ Result.success <=> AllInBounds(DirectProposal)
        /\ Result.success => Result.newState = DirectProposal
        /\ (Input.lockedVariable = "P" /\ ~VInBounds(DirectProposal.V)) =>
             (~Result.success /\ Names(Result.reason, "V"))

\* C6: in coordinator mode the dependent variable is the one the pairing
\* table gives for (lock, changed variable): it is neither the changed nor
\* the locked variable, a success carries the requested value and leaves
\* the third variable as it was, and a failure names the dependent variable.
C6_DependentVariableTable ==
    CoordinatorMode =>
        LET d == SpecDependent(Input.lockedVariable, Request.variable)
            h == Held(Input.lockedVariable, Request.variable)
        IN  /\ d \notin {Request.variable, Input.lockedVariable}
            /\ Result.success =>
                 /\ Result.newState[Request.variable] = Request.value
                 /\ Result.newState[h] = Input[h]
            /\ ~Result.success => Result.reason[1] = d

\* an unlocked change of T that moved P
C6_Witness ==
    /\ CoordinatorMode /\ Result.success
    /\ Input.lockedVariable = Null /\ Request.variable = "T"
    /\ Result.newState.P # Input.P

\* C7: in coordinator mode, when the dependent variable's theoretical value
\* is inside its bounds the call succeeds with the dependent variable at
\* that value, the changed variable at the requested value, and n and the
\* held variable as in the current state.
C7_InBoundsAdopted ==
    CoordinatorMode =>
        LET d == SpecDependent(Input.lockedVariable, Request.variable)
            s0 == Applied(Input, Request.variable, Request.value)
        IN  ValueInBounds(d, Solve(d, s0)) =>
              /\ Result.success
              /\ Result.newState = With(s0, d, Solve(d, s0))

\* a success without clamping that moved the dependent variable
C7_Witness ==
    /\ CoordinatorMode /\ ~Coordinated /\ Result.success
    /\ Result.newState.n = Input.n
    /\ \E d \in {"P", "V", "T"} :
         d # Request.variable /\ Result.newState[d] # Input[d]

\* the request of the specification's scenario A
ScenarioA ==
    /\ Made
    /\ Input.P = Rat(101325, 1000) /\ Input.V = Rat(224, 10)
    /\ Input.T = Rat(27315, 100) /\ Input.n = Num(1)
    /\ Input.lockedVariable = Null
    /\ Request = [variable |-> "V", value |-> Rat(112, 10)]

\* C8: in coordinator mode, when the dependent variable's theoretical value
\* is outside its bounds it is set to the nearest bound, n is re-derived
\* from the resulting P, V and T, and the call succeeds if and only if that
\* n is in [0.5,3]; scenario A succeeds with P = 200 and n in [0.5,3].
C8_ClampThenCoordinate ==
    /\ CoordinatorMode =>
        LET d == SpecDependent(Input.lockedVariable, Request.variable)
            s0 == Applied(Input, Request.variable, Request.value)
            x == Solve(d, s0)
            nearest == IF RLt(x, SpecMin(d)) THEN SpecMin(d) ELSE SpecMax(d)
            s1 == With(s0, d, nearest)
            s2 == With(s1, "n", Solve("n", s1))
        IN  ~ValueInBounds(d, x) =>
              /\ Result.success <=> NInBounds(s2.n)
              /\ Result.success => Result.newState = s2
    /\ ScenarioA =>
        /\ Result.success
        /\ Result.newState.P = Num(200)
        /\ NInBounds(Result.newState.n)

\* scenario A has been computed: P is at its maximum and n has moved
C8_Witness ==
    /\ ScenarioA /\ Coordinated /\ Result.success
    /\ Result.newState.P = Num(200)
    /\ Result.newState.n # Input.n

\* the bound a clamped dependent variable was set to
HitBound ==
    LET d == SpecDependent(Input.lockedVariable, Request.variable)
    IN  IF RLt(TheoreticalValue(Input, Request), SpecMin(d))
        THEN "min" ELSE "max"

\* C9: every success reached through clamping and moles coordination carries
\* a notification naming the clamped variable, the bound that was hit and the
\* new n; every moles-coordination failure carries a reason naming the
\* violated dependent variable and the out-of-range n; a success reached
\* without clamping carries no notification.
C9_NotificationOnCoordination ==
    /\ (Coordinated /\ Result.success) =>
         /\ "notification" \in Result.keys
         /\ Names(Result.notification,
                  SpecDependent(Input.lockedVariable, Request.variable))
         /\ Names(Result.notification, HitBound)
         /\ Names(Result.notification, "n")
    /\ (Coordinated /\ ~Result.success) =>
         /\ Names(Result.reason,
                  SpecDependent(Input.lockedVariable, Request.variable))
         /\ \E i \in DOMAIN Result.reason :
              Result.reason[i] = "out of bounds and moles coordination failed"
    /\ (ValidCall /\ ~Coordinated /\ Result.success) =>
         "notification" \notin Result.keys

\* C10: a successful result computed under a lock on X in {P, V, T} for a
\* change of another variable has newState.X = currentState.X, in direct-moles
\* mode and in coordinator mode, the clamped path included.
C10_LockedVariableKept ==
    (ValidCall /\ Result.success /\ Input.lockedVariable \in {"P", "V", "T"}
               /\ Request.variable # Input.lockedVariable) =>
        Result.newState[Input.lockedVariable] = Input[Input.lockedVariable]

\* a clamped and coordinated success under a lock
C10_Witness ==
    /\ Coordinated /\ Result.success
    /\ Input.lockedVariable \in {"P", "V", "T"}
    /\ Result.newState.n # Input.n

\* |x - y| <= tolerance * y, for positive x and y
QWithin(x, y, tolerance) ==
    /\ QLeq(x, QAdd(y, QMul(tolerance, y)))
    /\ QLeq(y, QAdd(x, QMul(tolerance, y)))

RelativeTolerance == Q(Rat(1, 10000))
GasConstant == Q(Rat(8314, 1000))

\* P * V = n * R * T within the relative tolerance
IdealGasLawHolds(s) ==
    QWithin(QMul(Q(s.P), Q(s.V)),
            QMul(QMul(Q(s.n), GasConstant), Q(s.T)),
            RelativeTolerance)

\* (P + a n^2 / V^2) * (V - n b) = n * R * T within the relative tolerance;
\* multiplied out, with the two subtracted terms moved to the other side:
\* P V + (a n^2 / V^2) V  against  n R T + P n b + (a n^2 / V^2) n b
VanDerWaalsHolds(s, a, b) ==
    LET attraction == QDiv(QMul(Q(a), QMul(Q(s.n), Q(s.n))),
                           QMul(Q(s.V), Q(s.V)))
        excluded == QMul(Q(s.n), Q(b))
        nRT == QMul(QMul(Q(s.n), GasConstant), Q(s.T))
        plus == QAdd(QMul(Q(s.P), Q(s.V)), QMul(attraction, Q(s.V)))
        minus == QAdd(QMul(Q(s.P), excluded), QMul(attraction, excluded))
        slack == QMul(RelativeTolerance, nRT)
    IN  /\ QLeq(plus, QAdd(QAdd(nRT, minus), slack))
        /\ QLeq(QAdd(nRT, minus), QAdd(plus, slack))

\* C2: whenever calculateNewState succeeds, the returned P, V, T, n satisfy
\* the active equation of state within 1e-4 relative tolerance: the ideal-gas
\* law when the state's a and b are both zero, the van der Waals equation
\* with the state's a and b otherwise.
C2_EquationOfStateHolds ==
    (ValidCall /\ Result.success) =>
        IF Input.a = Num(0) /\ Input.b = Num(0)
        THEN IdealGasLawHolds(Result.newState)
        ELSE VanDerWaalsHolds(Result.newState, Input.a, Input.b)

\* the part of C2 the code does satisfy: the ideal-gas law, whatever a and b
C2_IdealGasLawAlways ==
    (ValidCall /\ Result.success) => IdealGasLawHolds(Result.newState)

(***************************************************************************)
(* Properties of the simulation.  They read the engine's state (sim) and   *)
(* the store (state).                                                      *)
(***************************************************************************)
Closed(x, lo, hi) == LessEq(lo, x) /\ LessEq(x, hi)

\* C14: a volume from 10 to 50 sent to its piston position and read back
\* through the position-to-volume mapping is the same volume again, and the
\* position-to-volume mapping gives a volume from 10 to 50 for every piston
\* position.
C14_VolumeMappingRoundTrip ==
    /\ sim.op = "roundTrip" => sim.volume = <<state.V>>
    /\ sim.op \in {"roundTrip", "volumeFromWallPosition"} =>
           Closed(sim.volume[1], Num(10), Num(50))

C14_Witness ==
    /\ sim.op = "roundTrip"
    /\ state.V = Rat(333, 10)
    /\ sim.volume = <<Rat(333, 10)>>
    /\ sim.wall[1].x = Rat(4463, 20)

\* C17: in every step of the homing controller while nobody drags, with
\* e = target - piston x: when |e| < 0.5 the piston's velocity is set to
\* zero and its position is set to the target exactly if |e| > 0.1 (and left
\* alone otherwise); when |e| >= 0.5 the velocity is set to (0.2 * e, 0) and
\* the position is not set.
C17_HomingStep ==
    [][(sim'.op = "beforeUpdate" /\ ~sim.isDragging) =>
         LET target == calculateTargetXFromVolume(state.V)
             e == Minus(target, sim.wall[1].x)
         IN  IF Less(MathAbs(e), Rat(1, 2))
             THEN /\ sim'.wall[1].vx = Num(0)
                  /\ sim'.wall[1].x = IF Less(Rat(1, 10), MathAbs(e))
                                      THEN target ELSE sim.wall[1].x
             ELSE /\ sim'.wall[1].vx = Times(Rat(1, 5), e)
                  /\ sim'.wall[1].x = sim.wall[1].x]_vars

C17_Witness ==
    /\ sim.op = "beforeUpdate"
    /\ ~sim.isDragging
    /\ sim.wall[1].vx = Num(4)
    /\ sim.wall[1].x = Minus(calculateTargetXFromVolume(state.V), Num(20))

SpeedSquared(q) == Plus(Times(q.vx, q.vx), Times(q.vy, q.vy))

\* C18: a contact between a particle and a wall negates only the velocity
\* component perpendicular to the wall: at the left wall and at the piston
\* vx becomes -vx and vy is kept, at the top and bottom walls vy becomes -vy
\* and vx is kept; the particle's speed is the same before and after.
C18_WallContactReflects ==
    [][sim'.op = "wallCollision" =>
         LET before == sim.particles[1]
             after == sim'.particles[1]
         IN  /\ \A w \in sim'.contacts \cap {"left", "right"} :
                  after.vx = Neg(before.vx) /\ after.vy = before.vy
             /\ \A w \in sim'.contacts \cap {"top", "bottom"} :
                  after.vy = Neg(before.vy) /\ after.vx = before.vx
             /\ SpeedSquared(after) = SpeedSquared(before)]_vars

C18_Witness ==
    /\ sim.op = "wallCollision"
    /\ sim.contacts = {"right"}
    /\ sim.particles[1].vx = Rat(3, 5)
    /\ sim.particles[1].vy = Sig(-4, 5)

\* the component of q's velocity along the direction (dx, dy), times the
\* length of (dx, dy)
Along(q, dx, dy) == Plus(Times(q.vx, dx), Times(q.vy, dy))

\* C19: resolveElasticCollision keeps each particle's velocity component
\* across the line of centres and gives the components along it the
\* one-dimensional elastic formulas: total momentum and total kinetic energy
\* are the same before and after, particles of equal mass exchange their
\* components along the line of centres, and a head-on pair with equal and
\* opposite velocities swaps velocities.
C19_ElasticCollision ==
    [][sim'.op = "particleCollision" =>
         LET b1 == sim.particles[1]
             b2 == sim.particles[2]
             a1 == sim'.particles[1]
             a2 == sim'.particles[2]
             nx == Minus(b2.x, b1.x)
             ny == Minus(b2.y, b1.y)
             headOn == /\ <<nx, ny>> # <<Num(0), Num(0)>>
                       /\ Along(b1, Neg(ny), nx) = Num(0)
                       /\ b2.vx = Neg(b1.vx) /\ b2.vy = Neg(b1.vy)
         IN  /\ Along(a1, Neg(ny), nx) = Along(b1, Neg(ny), nx)
             /\ Along(a2, Neg(ny), nx) = Along(b2, Neg(ny), nx)
             /\ Along(a1, nx, ny) = Along(b2, nx, ny)
             /\ Along(a2, nx, ny) = Along(b1, nx, ny)
             /\ Plus(a1.vx, a2.vx) = Plus(b1.vx, b2.vx)
             /\ Plus(a1.vy, a2.vy) = Plus(b1.vy, b2.vy)
             /\ Plus(SpeedSquared(a1), SpeedSquared(a2))
                  = Plus(SpeedSquared(b1), SpeedSquared(b2))
             /\ headOn => /\ a1.vx = b2.vx /\ a1.vy = b2.vy
                          /\ a2.vx = b1.vx /\ a2.vy = b1.vy
             /\ <<a1.x, a1.y, a2.x, a2.y>> = <<b1.x, b1.y, b2.x, b2.y>>]_vars

\* an oblique contact: (1, 0) and (0, -2) with the centres (6, 8) apart
C19_Witness ==
    /\ sim.op = "particleCollision"
    /\ sim.particles[2].x = Num(106) /\ sim.particles[2].y = Num(108)
    /\ sim.particles[1].vx = Sig(-8, 25) /\ sim.particles[1].vy = Sig(-44, 25)
    /\ sim.particles[2].vx = Rat(33, 25) /\ sim.particles[2].vy = Sig(-6, 25)

\* C11: the piston is owned by AutoTracking (at first) or by UserDragging;
\* a drag-start puts it in UserDragging and a drag-end back in AutoTracking,
\* and in every step while it is in UserDragging the homing controller
\* changes neither the piston's velocity nor its position.  As a state
\* predicate: while the mouse constraint holds the piston, the store's
\* isDragging is set and a run of the homing controller leaves the piston
\* as it is; while it does not, isDragging is clear.
C11_DragSuspendsHoming ==
    (sim.matter /\ sim.engine) =>
        /\ sim.isDragging = sim.held
        /\ sim.held => beforeUpdate(sim, state.V).wall = sim.wall

\* C12: after every drag-end the store's V is the released piston position
\* sent through the position-to-volume mapping, so that the first
\* AutoTracking step has the released position as its homing target.
C12_ReleaseWritesVolume ==
    [][sim'.op = "enddrag" =>
         /\ state'.V = calculateVolumeFromWallPosition(sim.wall[1].x)
         /\ calculateTargetXFromVolume(state'.V) = sim'.wall[1].x]_vars

\* C13: between a drag-start and the drag-end only the drag changes the
\* piston's position and velocity: neither the per-step homing controller
\* nor the piston update that runs on every store change sets them.
C13_OnlyTheDragMovesThePiston ==
    [][(sim.held /\ sim'.held /\ sim'.op # "dragmove") =>
         sim'.wall = sim.wall]_vars

AtRest(q) == q.vx = Num(0) /\ q.vy = Num(0)

\* C15: after stop() every particle has the velocity (0, 0) and the arena
\* stays frozen: no later step and no later store update gives any
\* particle a velocity other than zero.
C15_StoppedArenaStaysFrozen ==
    sim.stopped => \A i \in DOMAIN sim.particles : AtRest(sim.particles[i])

\* C16: update(state) called while the backend is unavailable or the
\* engine is not initialised returns without changing anything and never
\* throws, and so does stop().
C16_NoEngineNoEffect ==
    [][(~(sim.matter /\ sim.engine) /\ sim'.op \in {"update", "stop"}) =>
         /\ [sim' EXCEPT !.op = sim.op, !.stopped = sim.stopped] = sim
         /\ sim'.thrown = {}]_vars

\* an update after Matter has arrived and before the retry timer has built
\* the engine
C16_Witness ==
    /\ sim.matter /\ ~sim.engine
    /\ sim.op = "update"
    /\ changes = 1
    /\ sim.stopped
    /\ sim.wall = <<>> /\ sim.particles = <<>> /\ sim.thrown = {}

Inside(s, q) ==
    LET c == SIMULATION_CONFIG
    IN  /\ LessEq(c.wallThickness, Minus(q.x, c.particleRadius))
        /\ LessEq(Plus(q.x, c.particleRadius),
                  Minus(s.wall[1].x, Half(c.pistonThickness)))
        /\ LessEq(c.wallThickness, Minus(q.y, c.particleRadius))
        /\ LessEq(Plus(q.y, c.particleRadius),
                  Minus(c.height, c.wallThickness))

\* C20: after each completed step (after the boundary pass of afterUpdate)
\* every particle lies inside the box of the walls' current positions; its
\* right edge is not to the right of the piston's inner face, the piston's
\* centre minus half the piston's thickness.
C20_ParticlesInsideTheBox ==
    sim.op = "step" => \A i \in DOMAIN sim.particles : Inside(sim, sim.particles[i])

\* the planes of the boundary pass, for the centre of a particle
PassLeft == Plus(SIMULATION_CONFIG.wallThickness, SIMULATION_CONFIG.particleRadius)
PassRight(s) ==
    Minus(Minus(s.wall[1].x, Half(SIMULATION_CONFIG.wallThickness)),
          SIMULATION_CONFIG.particleRadius)
PassTop == Plus(SIMULATION_CONFIG.wallThickness, SIMULATION_CONFIG.particleRadius)
PassBottom ==
    Minus(Minus(SIMULATION_CONFIG.height, SIMULATION_CONFIG.wallThickness),
          SIMULATION_CONFIG.particleRadius)

\* the box between the planes has room for a particle's centre
BoxHoldsAParticle(s) == LessEq(PassLeft, PassRight(s))

\* the nearest point of lo..hi to x, and v turned inward when x is outside
Nearest(x, lo, hi) == Larger(lo, Smaller(hi, x))
TurnedInward(x, v, lo, hi) ==
    IF Less(x, lo) THEN MathAbs(v)
    ELSE IF Less(hi, x) THEN Neg(MathAbs(v))
    ELSE v

C22_MonitorWatchesParticlesOnly ==
    [][sim'.op = "step" =>
         /\ sim'.anomaly <=>
              QLess(QAdd(sim'.previousTotalKE.molecules, Q(Rat(1, 1000))),
                    sim.previousTotalKE.molecules)
         /\ LET passed == enforceAllBoundaries(
                              collisionStart(Integrate(
                                  beforeUpdate(sim, state.V))))
            IN  /\ sim'.particles = passed.particles
                /\ sim'.wall = passed.wall
                /\ sim'.count = passed.count]_vars

\* C23: with a single particle in the arena, no other particles and no
\* change of the store, the energy monitor reports no anomaly in any step:
\* neither wall contacts, nor the boundary pass, nor the homing of the
\* piston makes the monitored total drop by more than the tolerance.
C23_SingleParticleNoAnomaly ==
    (sim.op = "step" /\ changes = 0 /\ ~sim.stopped /\ ~sim.held
       /\ sim.thrown = {})
        => ~sim.anomaly

\* C24: when a store update changes n but not T, the population update
\* adds or removes particles without perturbing the survivors: every
\* particle that exists before and after has the same velocity after as
\* before, and particles are removed from the end only (the survivors are
\* the original prefix in the original order).
C24_SurvivorsKeepVelocity ==
    [][(sim'.op = "update" /\ sim.matter /\ sim.engine
          /\ state'.n # state.n /\ state'.T = state.T) =>
         /\ Len(sim'.particles) <= Len(sim.particles)
         /\ \A i \in DOMAIN sim'.particles :
              /\ sim'.particles[i].vx = sim.particles[i].vx
              /\ sim'.particles[i].vy = sim.particles[i].vy
              /\ sim'.particles[i].x = sim.particles[i].x
              /\ sim'.particles[i].y = sim.particles[i].y]_vars

\* C25: the particle count is the same fixed multiple of n at all times,
\* round(k * n) for one constant k after initialisation and after every
\* update, so that initialising with n and then updating with the same n
\* does not change the number of particles.
C25_CountProportionalToMoles ==
    [][(sim'.op = "update" /\ sim.matter /\ sim.engine
          /\ state'.n = state.n) =>
         sim'.count = sim.count]_vars

(***************************************************************************)
(* C26: after any sequence of store operations (updateState with a patch,  *)
(* addLogEntry, the flow actions, record_point and reset among them) the   *)
(* log holds at most 50 entries and the history at most 100 points.        *)
(***************************************************************************)
C26_LogAndHistoryCapped ==
    Len(store.log) <= 50 /\ Len(store.history) <= 100

\* the handler that has just run is handleFlowAction on an action of a type
\* the phase it found does not allow
DisallowedFlowAction ==
    /\ store'.handled = store.handled + 1
    /\ store'.last[1] = "handleFlowAction"
    /\ ~isActionAllowed(store'.last[2], store.experimentPhase)

(***************************************************************************)
(* C27: a flow action whose type the current phase does not allow has no   *)
(* effect: experimentPhase, P, V, T, n, currentStep and the history are    *)
(* after the handler what they were before it.                             *)
(***************************************************************************)
C27_DisallowedActionNoEffect ==
    [][DisallowedFlowAction =>
         /\ store'.experimentPhase = store.experimentPhase
         /\ state'.P = state.P /\ state'.V = state.V
         /\ state'.T = state.T /\ state'.n = state.n
         /\ store'.currentStep = store.currentStep
         /\ store'.history = store.history]_vars

DisplayChains == Cardinality(notifier.timers)

\* a notification goes on screen while the one put there before it still
\* waits for its hide timer
ReplacedEarly ==
    /\ notifier'.displayed # notifier.displayed
    /\ notifier.displayed # <<>>
    /\ HideTimer(notifier.displayed[Len(notifier.displayed)])
         \in notifier.timers

InShowOrder ==
    \A i, j \in DOMAIN notifier.displayed :
        i < j => notifier.displayed[i] < notifier.displayed[j]

(***************************************************************************)
(* C30: in every interleaving of show(), clearQueue() and the timer        *)
(* callbacks at most one display chain is active, a notification on screen *)
(* is not replaced before its duration has elapsed, and the notifications  *)
(* are displayed in the order of their show() calls.                       *)
(***************************************************************************)
C30_OneDisplayChain ==
    /\ [](DisplayChains <= 1 /\ InShowOrder)
    /\ [][~ReplacedEarly]_vars

\* target minus wall position
Distance(s) == Minus(calculateTargetXFromVolume(state.V), s.wall[1].x)

AutoTracking(s) == s.matter /\ s.engine /\ ~s.held /\ ~s.isDragging

\* the distance has not grown and has not changed sign
NoOvershoot ==
    /\ LessEq(MathAbs(Distance(sim')), MathAbs(Distance(sim)))
    /\ MathSign(Distance(sim')) \in {MathSign(Distance(sim)), Num(0)}

WallRests(s) ==
    /\ s.wall[1].vx = Num(0)
    /\ Less(MathAbs(Distance(s)), Rat(5, 10))

WallAtRest == WallRests(sim)

\* a step of a wall that is half a pixel or more away takes it a fifth of
\* the way
Approaches ==
    Less(MathAbs(Distance(sim)), Rat(5, 10))
      \/ MathAbs(Distance(sim')) = Times(MathAbs(Distance(sim)), Rat(4, 5))

(***************************************************************************)
(* C29: while the wall is in AutoTracking and V does not change, the       *)
(* distance between the wall and its target never grows from one step to   *)
(* the next and never changes sign, and the wall eventually comes to rest  *)
(* with zero velocity within 0.5 pixel of the target, from every starting  *)
(* position: every step takes a wall that is not yet within 0.5 pixel a    *)
(* fifth of the way, a wall at rest stays at rest, and from two pixels     *)
(* away or less the wall is at rest after eight steps.                     *)
(***************************************************************************)
C29_HomingConverges ==
    /\ [][(AutoTracking(sim) /\ sim'.op = "step" /\ state'.V = state.V)
            => /\ NoOvershoot
               /\ Approaches
               /\ WallRests(sim) => WallRests(sim')]_vars
    /\ [](AutoTracking(sim) /\ sim.steps >= 8 => WallAtRest)

\* the wall has come to rest on its target after eight ticks that had it
\* moving
C29_Witness ==
    /\ sim.op = "step" /\ sim.steps = 8
    /\ AutoTracking(sim)
    /\ sim.wall[1].vx = Num(0)
    /\ Distance(sim) = Num(0)

====
